---------------------------- MODULE Spec2Model ----------------------------
(***************************************************************************)
(* A model of the inference-service gateway (services/inference-server):   *)
(* the chat-completion handler, the request validators, the three provider *)
(* adapters (lmstudio = "openai-compat", openai, mock) and the shared HTTP *)
(* client's post_json retry loop.                                          *)
(*                                                                         *)
(* Conventions.                                                            *)
(*   Option<T>   : None == <<>>, Some(x) == <<x>>.                         *)
(*   Result<T,E> : Ok(v) == [ok |-> TRUE, val |-> v],                      *)
(*                 Err(e) == [ok |-> FALSE, err |-> e].                    *)
(*   String      : a name the code takes apart (a model name, an id) is a  *)
(*                 sequence of pieces, <<"mock-", "demo">>; a text the     *)
(*                 code tokenises is a sequence of characters.             *)
(*   JSON object : a function from the keys that are present to values; a  *)
(*                 field serde skips (skip_serializing_if) is absent.      *)
(*   f32         : an integer number of tenths (2.0 is 20).                *)
(*   Error values keep their variant and the fields the handler reads;     *)
(*   the human-readable message strings are left out, and so is the        *)
(*   `created` timestamp of a response or chunk.                           *)
(***************************************************************************)
EXTENDS Integers, Sequences, FiniteSets, TLC

VARIABLES
    \* ---- process-wide, immutable after startup (AppState, Settings) ----
    provider,         \* the configured adapter: "lmstudio", "openai" or "mock"
    default_model,    \* settings.inference.default_model
    allowed_models,   \* settings.inference.allowed_models : Option<set>
    files,            \* the mock responses_dir: file stem -> parsed YAML
    \* ---- process-wide, mutable ----
    response_cache,   \* MockProvider.response_cache : scenario -> fixture
    \* ---- the request in flight in generate_completion ----
    pc,               \* "idle", "streaming" (SSE body being pumped), "done";
                      \* "down" while no listener is bound
    request,          \* Option<CompletionRequest>
    stages,           \* the pipeline stages the handler has run, in order
    adapter_calls,    \* the adapter operations invoked: "generate", "stream"
    upstream_posts,   \* HTTP POSTs sent upstream for this request
    fixture_reads,    \* fixture files read for this request
    upstream_reply,   \* Option<what the upstream answered to the POST>
    response,         \* Option<what the handler returned>
    provider_stream,  \* the ProviderStream still to be polled
    adapter_items,    \* the items the ProviderStream has yielded so far
    sse,              \* the SSE events the handler has written so far
    \* ---- one call of HttpProviderClient::post_json ----
    pj,               \* Option<the loop state of post_json>
    \* ---- concurrent calls of MockProvider::load_responses ----
    mc,               \* Option<the tasks inside load_responses, with counters>
    \* ---- one call of a pure function ----
    call,             \* Option<the function called, its arguments, its result>
    \* ---- the process in main, from create_provider to axum::serve ----
    boot              \* Option<main's position, the adapter, the listener>

handlerVars ==
    <<provider, default_model, allowed_models, files, response_cache, pc,
      request, stages, adapter_calls, upstream_posts, fixture_reads,
      upstream_reply, response, provider_stream, adapter_items, sse>>

vars ==
    <<handlerVars, pj, mc, call, boot>>

----------------------------------------------------------------------------
(* Option and Result *)

None ==
    <<>>

Some(x) ==
    <<x>>

IsSome(o) ==
    Len(o) = 1

IsNone(o) ==
    Len(o) = 0

Ok(v) ==
    [ok |-> TRUE, val |-> v]

Err(e) ==
    [ok |-> FALSE, err |-> e]

----------------------------------------------------------------------------
(* Bounds of the model, and constants of the program *)

\* config.rs: default_retry_backoff_ms
default_retry_backoff_ms ==
    250

\* config.rs: default_max_retries
default_max_retries ==
    3

\* the longest fixture text, in characters
MaxTextLen ==
    3

\* the most SSE events one upstream streaming response delivers
MaxUpstreamEvents ==
    2

\* the largest configured http.max_retries explored
MaxRetriesBound ==
    3

----------------------------------------------------------------------------
(* validations.rs *)

ValidationError(type) ==
    [type |-> type]

ModelNotInAllowedList(model, allowed) ==
    [type |-> "ModelNotInAllowedList", model |-> model, allowed |-> allowed]

\* the range test with open ends
InRangeExclusive(v, lo, hi) ==
    lo < v /\ v < hi

InRange(v, lo, hi) ==
    lo <= v /\ v <= hi

\* the content test without the tool-related fields
has_content_ignoring_tools(msg) ==
    IsSome(msg.content)

has_content(msg) ==
    IsSome(msg.content) \/ IsSome(msg.tool_calls) \/ IsSome(msg.tool_call_id)

\* the first logit_bias entry, in iteration order, that fails its check
FirstBadLogitBias(entries) ==
    LET bad == {i \in 1..Len(entries) :
                   \/ ~entries[i].numeric_id
                   \/ IsNone(entries[i].bias)
                   \/ ~InRange(entries[i].bias[1], -1000, 1000)}
    IN  IF bad = {} THEN 0 ELSE CHOOSE i \in bad : \A j \in bad : i <= j

validate_completion_request(req) ==
    IF req.messages = <<>> THEN Err(ValidationError("EmptyMessages"))
    ELSE IF ~\E i \in 1..Len(req.messages) : has_content(req.messages[i])
        THEN Err(ValidationError("NoContent"))
    ELSE IF IsSome(req.max_tokens)
            /\ (req.max_tokens[1] = 0 \/ req.max_tokens[1] > 128000)
        THEN Err(ValidationError("InvalidMaxTokens"))
    ELSE IF IsSome(req.temperature) /\ ~InRange(req.temperature[1], 0, 20)
        THEN Err(ValidationError("InvalidTemperature"))
    ELSE IF IsSome(req.top_p) /\ ~InRange(req.top_p[1], 0, 10)
        THEN Err(ValidationError("InvalidTopP"))
    ELSE IF IsSome(req.frequency_penalty)
            /\ ~InRange(req.frequency_penalty[1], -20, 20)
        THEN Err(ValidationError("InvalidFrequencyPenalty"))
    ELSE IF IsSome(req.presence_penalty)
            /\ ~InRange(req.presence_penalty[1], -20, 20)
        THEN Err(ValidationError("InvalidPresencePenalty"))
    ELSE IF IsSome(req.top_logprobs) /\ req.top_logprobs[1] > 20
        THEN Err(ValidationError("InvalidTopLogprobs"))
    ELSE IF IsSome(req.n) /\ (req.n[1] = 0 \/ req.n[1] > 10)
        THEN Err(ValidationError("InvalidN"))
    ELSE IF IsSome(req.logit_bias) /\ FirstBadLogitBias(req.logit_bias[1]) # 0
        THEN Err(ValidationError("InvalidLogitBias"))
    ELSE Ok("valid")

\* validate_model_allowed taking an empty allow-list for no allow-list
validate_model_allowed_unless_empty(requested_model, allowed) ==
    IF IsSome(allowed) /\ allowed[1] # {} /\ requested_model \notin allowed[1]
    THEN Err(ModelNotInAllowedList(requested_model, allowed[1]))
    ELSE Ok("allowed")

validate_model_allowed(requested_model, allowed) ==
    IF IsSome(allowed) /\ requested_model \notin allowed[1]
    THEN Err(ModelNotInAllowedList(requested_model, allowed[1]))
    ELSE Ok("allowed")

\* fault: the capability check lets every request through
validate_provider_capabilities_always_ok(req, supports_streaming) ==
    Ok("capable")

validate_provider_capabilities(req, supports_streaming) ==
    IF req.stream = Some(TRUE) /\ ~supports_streaming
    THEN Err(ValidationError("StreamingNotSupported"))
    ELSE Ok("capable")

determine_model(requested_model, default, allowed) ==
    IF IsSome(requested_model)
    THEN LET r == validate_model_allowed(requested_model[1], allowed)
         IN  IF r.ok THEN Ok(requested_model[1]) ELSE r
    ELSE Ok(default)

----------------------------------------------------------------------------
(* providers/mod.rs: errors, streaming utilities, response assembly *)

ProviderError(type) ==
    [type |-> type]

RequestFailed(status) ==
    [type |-> "RequestFailed", status |-> status]

StreamError(msg) ==
    [type |-> "StreamError", msg |-> msg]

InvalidExtension(param) ==
    [type |-> "InvalidExtension", param |-> param]

ModelNotAvailable(requested, available) ==
    [type |-> "ModelNotAvailable", requested |-> requested,
     available |-> available]

\* impl Display for ProviderError, as far as the handler prints it
Display(e) ==
    IF e.type = "StreamError" THEN <<"Streaming error: ", e.msg>>
    ELSE <<e.type>>

Whitespace ==
    {" "}

\* the length of the longest prefix of text without whitespace
RECURSIVE WordLen(_)
WordLen(text) ==
    IF text = <<>> \/ text[1] \in Whitespace THEN 0
    ELSE 1 + WordLen(Tail(text))

\* str::split_whitespace
RECURSIVE split_whitespace(_)
split_whitespace(text) ==
    IF text = <<>> THEN <<>>
    ELSE IF text[1] \in Whitespace THEN split_whitespace(Tail(text))
    ELSE <<SubSeq(text, 1, WordLen(text))>>
         \o split_whitespace(SubSeq(text, WordLen(text) + 1, Len(text)))

tokenize_for_streaming(text) ==
    LET words == split_whitespace(text)
    IN  [i \in 1..Len(words) |-> words[i] \o <<" ">>]

create_first_chunk(id, model, role) ==
    [id |-> id, object |-> "chat.completion.chunk", model |-> model,
     choices |-> <<[index |-> 0,
                    delta |-> [role |-> Some(role), content |-> None],
                    finish_reason |-> None]>>,
     usage |-> None]

create_content_chunk(id, model, content) ==
    [id |-> id, object |-> "chat.completion.chunk", model |-> model,
     choices |-> <<[index |-> 0,
                    delta |-> [role |-> None, content |-> Some(content)],
                    finish_reason |-> None]>>,
     usage |-> None]

\* fault: the final chunk carries no finish_reason
create_final_chunk_unfinished(id, model, finish_reason, usage) ==
    [id |-> id, object |-> "chat.completion.chunk", model |-> model,
     choices |-> <<[index |-> 0,
                    delta |-> [role |-> None, content |-> None],
                    finish_reason |-> None]>>,
     usage |-> usage]

create_final_chunk(id, model, finish_reason, usage) ==
    [id |-> id, object |-> "chat.completion.chunk", model |-> model,
     choices |-> <<[index |-> 0,
                    delta |-> [role |-> None, content |-> None],
                    finish_reason |-> Some(finish_reason)]>>,
     usage |-> usage]

\* Some(Usage) iff any of the three token counts is present
usage_of(prompt_tokens, completion_tokens, total_tokens) ==
    IF IsSome(prompt_tokens) \/ IsSome(completion_tokens) \/ IsSome(total_tokens)
    THEN Some([prompt_tokens |-> prompt_tokens,
               completion_tokens |-> completion_tokens,
               total_tokens |-> total_tokens])
    ELSE None

\* fault: the wire response is assembled without its choice
standard_completion_response_no_choice(resp, original_request, provider_name, uuid) ==
    [id |-> IF IsSome(resp.provider_request_id)
            THEN resp.provider_request_id[1]
            ELSE <<"chatcmpl-", uuid>>,
     object |-> "chat.completion",
     model |-> resp.model_used,
     choices |-> <<>>,
     usage |-> usage_of(resp.prompt_tokens, resp.completion_tokens,
                        resp.total_tokens),
     provider_extensions |-> None]

standard_completion_response(resp, original_request, provider_name, uuid) ==
    [id |-> IF IsSome(resp.provider_request_id)
            THEN resp.provider_request_id[1]
            ELSE <<"chatcmpl-", uuid>>,
     object |-> "chat.completion",
     model |-> resp.model_used,
     choices |-> <<[index |-> 0,
                    message |-> Some([role |-> "assistant",
                                      content |-> Some(resp.text),
                                      tool_calls |-> resp.tool_calls]),
                    finish_reason |-> resp.finish_reason]>>,
     usage |-> usage_of(resp.prompt_tokens, resp.completion_tokens,
                        resp.total_tokens),
     provider_extensions |->
         IF original_request.response_mode = Some("extended")
            /\ IsSome(resp.provider_data)
         THEN Some([provider |-> provider_name, data |-> resp.provider_data[1]])
         ELSE None]

----------------------------------------------------------------------------
(* error.rs: the HTTP face of a ProviderError *)

\* http::StatusCode::from_u16: Err for a number that is no status code
from_u16(status) ==
    IF 100 <= status /\ status < 1000 THEN Ok(status)
    ELSE Err("InvalidStatusCode")

\* status_code handing a RequestFailed status on unchecked
status_code_unchecked(e) ==
    IF e.type = "RequestFailed" THEN e.status
    ELSE IF e.type = "ConnectionFailed" THEN 502
    ELSE IF e.type = "Timeout" THEN 504
    ELSE IF e.type \in {"ModelNotAvailable", "StreamingNotSupported",
                        "InvalidExtension"} THEN 400
    ELSE 500

\* ProviderError::status_code
status_code(e) ==
    IF e.type = "ConnectionFailed" THEN 502
    ELSE IF e.type = "InvalidResponse" THEN 500
    ELSE IF e.type = "RequestFailed"
        THEN IF from_u16(e.status).ok THEN from_u16(e.status).val ELSE 500
    ELSE IF e.type = "ModelNotAvailable" THEN 400
    ELSE IF e.type = "Timeout" THEN 504
    ELSE IF e.type = "Configuration" THEN 500
    ELSE IF e.type = "StreamingNotSupported" THEN 400
    ELSE IF e.type = "StreamError" THEN 500
    ELSE 400

OpenAIError(error_type, param, code) ==
    [type |-> error_type, param |-> param, code |-> Some(code)]

\* ProviderError::to_openai_error
to_openai_error(e) ==
    IF e.type = "ConnectionFailed"
    THEN OpenAIError("api_error", None, "provider_connection_failed")
    ELSE IF e.type = "InvalidResponse"
    THEN OpenAIError("api_error", None, "provider_invalid_response")
    ELSE IF e.type = "RequestFailed"
    THEN IF e.status = 401
         THEN OpenAIError("authentication_error", None, "invalid_api_key")
         ELSE IF e.status = 403
         THEN OpenAIError("permission_error", None, "insufficient_quota")
         ELSE IF e.status = 429
         THEN OpenAIError("rate_limit_error", None, "rate_limit_exceeded")
         ELSE OpenAIError("api_error", None, "provider_error")
    ELSE IF e.type = "ModelNotAvailable"
    THEN OpenAIError("invalid_request_error", Some("model"), "model_not_found")
    ELSE IF e.type = "Timeout"
    THEN OpenAIError("timeout_error", None, "provider_timeout")
    ELSE IF e.type = "Configuration"
    THEN OpenAIError("api_error", None, "configuration_error")
    ELSE IF e.type = "StreamingNotSupported"
    THEN OpenAIError("invalid_request_error", Some("stream"),
                     "unsupported_parameter")
    ELSE IF e.type = "StreamError"
    THEN OpenAIError("api_error", None, "stream_error")
    ELSE OpenAIError("invalid_request_error", Some(e.param), "invalid_extension")

\* IntoResponse for ApiError::Provider(e)
into_response(e) ==
    [status |-> status_code(e), body |-> [error |-> to_openai_error(e)]]

----------------------------------------------------------------------------
(* models.rs: the JSON codec of StreamChunk (serde derive) *)

\* a JSON object with the keys of `present`, valued by `fields`
JsonObject(present, fields) ==
    [k \in present |-> fields[k]]

SerializeDelta(delta) ==
    JsonObject({k \in {"role", "content"} : IsSome(delta[k])},
               [role |-> IF IsSome(delta.role) THEN delta.role[1] ELSE "",
                content |-> IF IsSome(delta.content) THEN delta.content[1]
                            ELSE <<>>])

SerializeStreamChoice(c) ==
    JsonObject({"index", "delta"}
                 \cup (IF IsSome(c.finish_reason) THEN {"finish_reason"} ELSE {}),
               [index |-> c.index, delta |-> SerializeDelta(c.delta),
                finish_reason |-> IF IsSome(c.finish_reason)
                                  THEN c.finish_reason[1] ELSE ""])

SerializeStreamChunk(chunk) ==
    JsonObject({"id", "object", "model", "choices"}
                 \cup (IF IsSome(chunk.usage) THEN {"usage"} ELSE {}),
               [id |-> chunk.id, object |-> chunk.object, model |-> chunk.model,
                choices |-> [i \in 1..Len(chunk.choices) |->
                                SerializeStreamChoice(chunk.choices[i])],
                usage |-> IF IsSome(chunk.usage) THEN chunk.usage[1] ELSE <<>>])

\* an optional field of a JSON object, as serde reads it
Field(json, k) ==
    IF k \in DOMAIN json THEN Some(json[k]) ELSE None

DeserializeStreamChoice(json) ==
    [index |-> json.index,
     delta |-> [role |-> Field(json.delta, "role"),
                content |-> Field(json.delta, "content")],
     finish_reason |-> Field(json, "finish_reason")]

\* serde_json::from_str::<StreamChunk>: the required fields must be there
DeserializeStreamChunk(json) ==
    IF {"id", "object", "model", "choices"} \subseteq DOMAIN json
    THEN Ok([id |-> json.id, object |-> json.object, model |-> json.model,
             choices |-> [i \in 1..Len(json.choices) |->
                             DeserializeStreamChoice(json.choices[i])],
             usage |-> Field(json, "usage")])
    ELSE Err("missing field")

----------------------------------------------------------------------------
(* main.rs: the SSE transcoding of generate_completion *)

\* the data of an SSE event: a JSON text or a literal text
JsonText(json) ==
    [json |-> json]

Literal(text) ==
    [text |-> text]

Event(data) ==
    [data |-> data]

DoneEvent ==
    Event(Literal("[DONE]"))

\* the closure mapped over the provider stream
to_sse_event(chunk_result) ==
    IF chunk_result.ok
    THEN Event(JsonText(SerializeStreamChunk(chunk_result.val)))
    ELSE Event(JsonText([error |-> [message |-> Display(chunk_result.err),
                                    type |-> "stream_error"]]))

----------------------------------------------------------------------------
(* providers/mod.rs: the provider contract's default extension policy *)

supports_streaming(p) ==
    p \in {"lmstudio", "openai", "mock"}

LM_STUDIO_EXTENSIONS ==
    {"top_k", "min_p", "repeat_penalty", "mirostat_mode", "mirostat_tau",
     "mirostat_eta", "grammar", "cache_prompt", "n_probs", "tfs_z",
     "typical_p", "min_tokens"}

supported_extensions(p) ==
    IF p = "lmstudio" THEN LM_STUDIO_EXTENSIONS ELSE {}

\* the first key, in the map's iteration order, that is in `bad`
FirstKey(order, bad) ==
    LET hits == {i \in 1..Len(order) : order[i] \in bad}
    IN  IF hits = {} THEN None
        ELSE Some(order[CHOOSE i \in hits : \A j \in hits : i <= j])

\* fault: only the first key the map yields is looked at
default_validate_extensions_first_key_only(supported, extensions, order) ==
    IF order # <<>> /\ order[1] \notin supported
    THEN Err(InvalidExtension(order[1]))
    ELSE Ok("ok")

\* InferenceProvider::validate_extensions (the default body); `order` is the
\* order in which the HashMap yields its keys
default_validate_extensions(supported, extensions, order) ==
    IF supported = {} /\ DOMAIN extensions # {}
    THEN Err(InvalidExtension(order))
    ELSE LET bad == FirstKey(order, DOMAIN extensions \ supported)
         IN  IF IsSome(bad) THEN Err(InvalidExtension(bad[1])) ELSE Ok("ok")

----------------------------------------------------------------------------
(* providers/lmstudio.rs: extension schema *)

\* a serde_json::Value: [t |-> "int" | "float" | "string" | "bool", v |-> _];
\* a float's v is in tenths
as_i64(value) ==
    IF value.t = "int" THEN Some(value.v) ELSE None

as_f64(value) ==
    IF value.t = "int" THEN Some(10 * value.v)
    ELSE IF value.t = "float" THEN Some(value.v)
    ELSE None

\* fault: top_k = 0 is let through
extension_value_ok_top_k_zero(key, value) ==
    CASE key = "top_k" -> IsSome(as_i64(value)) /\ as_i64(value)[1] >= 0
      [] key = "min_p" -> IsSome(as_f64(value)) /\ InRange(as_f64(value)[1], 0, 10)
      [] key = "repeat_penalty" -> IsSome(as_f64(value)) /\ as_f64(value)[1] >= 0
      [] key = "mirostat_mode" -> IsSome(as_i64(value)) /\ InRange(as_i64(value)[1], 0, 2)
      [] key = "mirostat_tau" -> IsSome(as_f64(value)) /\ as_f64(value)[1] > 0
      [] key = "mirostat_eta" -> IsSome(as_f64(value)) /\ InRange(as_f64(value)[1], 0, 10)
      [] key = "typical_p" -> IsSome(as_f64(value)) /\ InRange(as_f64(value)[1], 0, 10)
      [] key = "tfs_z" -> IsSome(as_f64(value)) /\ as_f64(value)[1] >= 0
      [] key = "min_tokens" -> IsSome(as_i64(value)) /\ as_i64(value)[1] >= 0
      [] key = "n_probs" -> IsSome(as_i64(value)) /\ as_i64(value)[1] >= 0
      [] key = "grammar" -> value.t = "string"
      [] key = "cache_prompt" -> value.t = "bool"
      [] OTHER -> FALSE

\* whether validate_lm_studio_extensions accepts `value` under `key`
extension_value_ok(key, value) ==
    CASE key = "top_k" -> IsSome(as_i64(value)) /\ as_i64(value)[1] > 0
      [] key = "min_p" -> IsSome(as_f64(value)) /\ InRange(as_f64(value)[1], 0, 10)
      [] key = "repeat_penalty" -> IsSome(as_f64(value)) /\ as_f64(value)[1] >= 0
      [] key = "mirostat_mode" -> IsSome(as_i64(value)) /\ InRange(as_i64(value)[1], 0, 2)
      [] key = "mirostat_tau" -> IsSome(as_f64(value)) /\ as_f64(value)[1] > 0
      [] key = "mirostat_eta" -> IsSome(as_f64(value)) /\ InRange(as_f64(value)[1], 0, 10)
      [] key = "typical_p" -> IsSome(as_f64(value)) /\ InRange(as_f64(value)[1], 0, 10)
      [] key = "tfs_z" -> IsSome(as_f64(value)) /\ as_f64(value)[1] >= 0
      [] key = "min_tokens" -> IsSome(as_i64(value)) /\ as_i64(value)[1] >= 0
      [] key = "n_probs" -> IsSome(as_i64(value)) /\ as_i64(value)[1] >= 0
      [] key = "grammar" -> value.t = "string"
      [] key = "cache_prompt" -> value.t = "bool"
      [] OTHER -> FALSE

validate_lm_studio_extensions(extensions, order) ==
    LET rejected == {k \in DOMAIN extensions :
                        ~extension_value_ok(k, extensions[k])}
        bad == FirstKey(order, rejected)
    IN  IF IsSome(bad) THEN Err(InvalidExtension(bad[1])) ELSE Ok("ok")

----------------------------------------------------------------------------
(* models.rs: the JSON codec of CompletionResponse (serde derive) *)

DeserializeMessage(json) ==
    [role |-> json.role,
     content |-> Field(json, "content"),
     tool_calls |-> Field(json, "tool_calls")]

DeserializeUsage(json) ==
    [prompt_tokens |-> Field(json, "prompt_tokens"),
     completion_tokens |-> Field(json, "completion_tokens"),
     total_tokens |-> Field(json, "total_tokens")]

DeserializeChoice(json) ==
    [index |-> json.index,
     message |-> IF "message" \in DOMAIN json
                 THEN Some(DeserializeMessage(json.message)) ELSE None,
     finish_reason |-> Field(json, "finish_reason")]

\* usage.as_ref().and_then(|u| u.<field>)
usage_field(usage, k) ==
    IF IsSome(usage) THEN usage[1][k] ELSE None

\* serde_json::from_value::<CompletionResponse>
DeserializeCompletionResponse(json) ==
    IF {"id", "object", "model", "choices"} \subseteq DOMAIN json
    THEN Ok([id |-> json.id, object |-> json.object, model |-> json.model,
             choices |-> [i \in 1..Len(json.choices) |->
                             DeserializeChoice(json.choices[i])],
             usage |-> IF "usage" \in DOMAIN json
                       THEN Some(DeserializeUsage(json.usage)) ELSE None,
             provider_extensions |-> Field(json, "provider_extensions")])
    ELSE Err("missing field")

----------------------------------------------------------------------------
(* The upstream model server, as the HTTP adapters see it *)

\* reqwest's send() failing, by the test the adapters apply to the error
TransportErrors ==
    {"timeout", "connect", "other"}

\* the mapping of a reqwest error every HTTP call site repeats
map_reqwest_error(e) ==
    IF e = "timeout" THEN ProviderError("Timeout")
    ELSE IF e = "connect" THEN ProviderError("ConnectionFailed")
    ELSE RequestFailed(0)

Statuses ==
    {200, 404, 503}

is_success(status) ==
    200 <= status /\ status <= 299

is_client_error(status) ==
    400 <= status /\ status <= 499

UpstreamMessage ==
    [role |-> "assistant", content |-> <<"h", "i">>]

UpstreamCompletions(model) ==
    {[id |-> id, object |-> object, model |-> m, choices |-> choices] :
        id \in {<<"chatcmpl-", "x">>, <<"cmpl-", "x">>},
        object \in {"chat.completion", "text_completion"},
        m \in {model, <<"other">>},
        choices \in {<<>>, <<[index |-> 0, message |-> UpstreamMessage,
                             finish_reason |-> "stop"]>>}}

UpstreamErrorEnvelopes ==
    {[error |-> [message |-> <<"quota">>, type |-> t]] :
        t \in {"insufficient_quota", "rate_limit_exceeded", "model_not_found",
               "invalid_api_key", "invalid_organization", "server_error"}}
      \cup {[error |-> [message |-> <<"quota">>]]}

\* a single-choice completion of a llama.cpp-style backend, which adds
\* `timings`; with `object`, and without it as some backends send it
UpstreamBackendCompletions(model) ==
    {JsonObject({"id", "model", "choices", "timings"} \cup optional,
                [id |-> <<"chatcmpl-", "x">>, object |-> "chat.completion",
                 model |-> model,
                 choices |-> <<[index |-> 0, message |-> UpstreamMessage,
                                finish_reason |-> "stop"]>>,
                 timings |-> [predicted_ms |-> 7]]) :
        optional \in {{}, {"object"}}}

\* the body of an upstream reply: a JSON text or something that is no JSON
UpstreamBodies(model) ==
    {JsonText(j) : j \in UpstreamCompletions(model) \cup UpstreamErrorEnvelopes
                          \cup UpstreamBackendCompletions(model)
                          \cup {[unexpected |-> TRUE]}}
      \cup {Literal("<html>")}

\* what the upstream does with one POST
UpstreamReplies(model) ==
    {[transport |-> Some(e), status |-> 0, body |-> Literal("")] :
        e \in TransportErrors}
      \cup {[transport |-> None, status |-> st, body |-> b] :
              st \in Statuses, b \in UpstreamBodies(model)}

\* response.json(): the body parsed as JSON
response_json(body) ==
    IF "json" \in DOMAIN body THEN Ok(body.json)
    ELSE Err(ProviderError("InvalidResponse"))

----------------------------------------------------------------------------
(* providers/lmstudio.rs *)

\* what an adapter operation hands back to the handler, with its effects:
\* the result, the fixture cache afterwards, and the I/O it performed
Outcome(result, cache, posts, reads) ==
    [result |-> result, cache |-> cache, posts |-> posts, reads |-> reads]

\* the ProviderStream of an HTTP adapter: the upstream body, still open,
\* with the number of SSE events read from it so far, and whether one of
\* them was the [DONE] marker
UpstreamStream ==
    [kind |-> "upstream", received |-> 0, done_received |-> FALSE]

\* the ProviderStream of the mock adapter: the chunks still to be yielded
ItemStream(items) ==
    [kind |-> "items", rest |-> items]

\* Validate and extract extensions (the head of generate and of stream)
lmstudio_check_extensions(req, order) ==
    IF IsSome(req.extensions)
    THEN validate_lm_studio_extensions(req.extensions[1], order)
    ELSE Ok("ok")

\* parse_response_body without the test of the model the upstream used
lmstudio_parse_response_body_any_model(json, requested_model) ==
    LET provider_data ==
            [k \in {"timings", "model_info", "truncated", "slot_id"}
                     \cap DOMAIN json |-> json[k]]
        parsed == DeserializeCompletionResponse(json)
    IN  IF ~parsed.ok THEN Err(ProviderError("InvalidResponse"))
        ELSE IF parsed.val.choices = <<>>
            THEN Err(ProviderError("InvalidResponse"))
        ELSE LET choice == parsed.val.choices[1]
             IN  Ok([text |-> IF IsSome(choice.message)
                                 /\ IsSome(choice.message[1].content)
                              THEN choice.message[1].content[1] ELSE <<>>,
                     model_used |-> parsed.val.model,
                     finish_reason |-> choice.finish_reason,
                     prompt_tokens |-> usage_field(parsed.val.usage, "prompt_tokens"),
                     completion_tokens |-> usage_field(parsed.val.usage, "completion_tokens"),
                     total_tokens |-> usage_field(parsed.val.usage, "total_tokens"),
                     provider_request_id |-> Some(parsed.val.id),
                     tool_calls |-> IF IsSome(choice.message)
                                    THEN choice.message[1].tool_calls ELSE None,
                     provider_data |-> IF DOMAIN provider_data = {} THEN None
                                       ELSE Some(provider_data)])

\* LMStudioProvider::parse_response_body
lmstudio_parse_response_body(json, requested_model) ==
    LET provider_data ==
            [k \in {"timings", "model_info", "truncated", "slot_id"}
                     \cap DOMAIN json |-> json[k]]
        parsed == DeserializeCompletionResponse(json)
    IN  IF ~parsed.ok THEN Err(ProviderError("InvalidResponse"))
        ELSE IF parsed.val.model # requested_model
            THEN Err(ModelNotAvailable(requested_model, <<parsed.val.model>>))
        ELSE IF parsed.val.choices = <<>>
            THEN Err(ProviderError("InvalidResponse"))
        ELSE LET choice == parsed.val.choices[1]
             IN  Ok([text |-> IF IsSome(choice.message)
                                 /\ IsSome(choice.message[1].content)
                              THEN choice.message[1].content[1] ELSE <<>>,
                     model_used |-> parsed.val.model,
                     finish_reason |-> choice.finish_reason,
                     prompt_tokens |-> usage_field(parsed.val.usage, "prompt_tokens"),
                     completion_tokens |-> usage_field(parsed.val.usage, "completion_tokens"),
                     total_tokens |-> usage_field(parsed.val.usage, "total_tokens"),
                     provider_request_id |-> Some(parsed.val.id),
                     tool_calls |-> IF IsSome(choice.message)
                                    THEN choice.message[1].tool_calls ELSE None,
                     provider_data |-> IF DOMAIN provider_data = {} THEN None
                                       ELSE Some(provider_data)])

\* LMStudioProvider::generate with the upstream answering `reply`
lmstudio_generate(req, model, cache, reply, order, uuid) ==
    LET ext == lmstudio_check_extensions(req, order)
    IN  IF ~ext.ok THEN Outcome(ext, cache, 0, 0)
        ELSE IF IsSome(reply.transport)
            THEN Outcome(Err(map_reqwest_error(reply.transport[1])), cache, 1, 0)
        ELSE IF ~is_success(reply.status)
            THEN Outcome(Err(RequestFailed(reply.status)), cache, 1, 0)
        ELSE LET body == response_json(reply.body)
             IN  IF ~body.ok THEN Outcome(body, cache, 1, 0)
                 ELSE LET direct == DeserializeCompletionResponse(body.val)
                          neutral == lmstudio_parse_response_body(body.val, model)
                      IN  IF direct.ok THEN Outcome(direct, cache, 1, 0)
                          ELSE IF ~neutral.ok THEN Outcome(neutral, cache, 1, 0)
                          ELSE Outcome(Ok(standard_completion_response(
                                              neutral.val, req, "lmstudio", uuid)),
                                       cache, 1, 0)

\* LMStudioProvider::stream up to the point where it returns the stream
lmstudio_stream(req, model, cache, reply, order) ==
    LET ext == lmstudio_check_extensions(req, order)
    IN  IF ~ext.ok THEN Outcome(ext, cache, 0, 0)
        ELSE IF IsSome(reply.transport)
            THEN Outcome(Err(map_reqwest_error(reply.transport[1])), cache, 1, 0)
        ELSE IF ~is_success(reply.status)
            THEN Outcome(Err(RequestFailed(reply.status)), cache, 1, 0)
        ELSE Outcome(Ok(UpstreamStream), cache, 1, 0)

\* the filter_map closure over the upstream's SSE events, shared by both HTTP
\* adapters: None drops the event, Some(item) yields it
sse_filter_map(event_result) ==
    IF ~event_result.ok THEN Some(Err(StreamError("SSE error")))
    ELSE IF event_result.val.data = Literal("[DONE]") THEN None
    ELSE IF "json" \in DOMAIN event_result.val.data
            /\ DeserializeStreamChunk(event_result.val.data.json).ok
        THEN Some(Ok(DeserializeStreamChunk(event_result.val.data.json).val))
    ELSE Some(Err(StreamError("Invalid stream chunk")))

----------------------------------------------------------------------------
(* providers/openai.rs *)

\* parse_response_body leaving the quota errors to the catch-all arm
openai_parse_response_body_by_status(json) ==
    LET parsed == DeserializeCompletionResponse(json)
    IN  IF parsed.ok
        THEN IF parsed.val.choices = <<>>
             THEN Err(ProviderError("InvalidResponse"))
             ELSE LET choice == parsed.val.choices[1]
                  IN  Ok([text |-> IF IsSome(choice.message)
                                      /\ IsSome(choice.message[1].content)
                                   THEN choice.message[1].content[1] ELSE <<>>,
                          model_used |-> parsed.val.model,
                          finish_reason |-> choice.finish_reason,
                          prompt_tokens |-> usage_field(parsed.val.usage, "prompt_tokens"),
                          completion_tokens |-> usage_field(parsed.val.usage, "completion_tokens"),
                          total_tokens |-> usage_field(parsed.val.usage, "total_tokens"),
                          provider_request_id |-> Some(parsed.val.id),
                          tool_calls |-> IF IsSome(choice.message)
                                         THEN choice.message[1].tool_calls
                                         ELSE None,
                          provider_data |-> None])
        ELSE IF "error" \in DOMAIN json
            THEN LET error_type == IF "type" \in DOMAIN json.error
                                   THEN json.error.type ELSE "unknown"
                 IN  CASE error_type \in {"insufficient_quota", "rate_limit_exceeded"}
                            -> Err(RequestFailed(500))
                       [] error_type = "model_not_found"
                            -> Err(ModelNotAvailable(<<"unknown">>, <<>>))
                       [] error_type \in {"invalid_api_key", "invalid_organization"}
                            -> Err(ProviderError("Configuration"))
                       [] OTHER -> Err(RequestFailed(500))
        ELSE Err(ProviderError("InvalidResponse"))

openai_parse_response_body(json) ==
    LET parsed == DeserializeCompletionResponse(json)
    IN  IF parsed.ok
        THEN IF parsed.val.choices = <<>>
             THEN Err(ProviderError("InvalidResponse"))
             ELSE LET choice == parsed.val.choices[1]
                  IN  Ok([text |-> IF IsSome(choice.message)
                                      /\ IsSome(choice.message[1].content)
                                   THEN choice.message[1].content[1] ELSE <<>>,
                          model_used |-> parsed.val.model,
                          finish_reason |-> choice.finish_reason,
                          prompt_tokens |-> usage_field(parsed.val.usage, "prompt_tokens"),
                          completion_tokens |-> usage_field(parsed.val.usage, "completion_tokens"),
                          total_tokens |-> usage_field(parsed.val.usage, "total_tokens"),
                          provider_request_id |-> Some(parsed.val.id),
                          tool_calls |-> IF IsSome(choice.message)
                                         THEN choice.message[1].tool_calls
                                         ELSE None,
                          provider_data |-> None])
        ELSE IF "error" \in DOMAIN json
            THEN LET error_type == IF "type" \in DOMAIN json.error
                                   THEN json.error.type ELSE "unknown"
                 IN  CASE error_type \in {"insufficient_quota", "rate_limit_exceeded"}
                            -> Err(RequestFailed(429))
                       [] error_type = "model_not_found"
                            -> Err(ModelNotAvailable(<<"unknown">>, <<>>))
                       [] error_type \in {"invalid_api_key", "invalid_organization"}
                            -> Err(ProviderError("Configuration"))
                       [] OTHER -> Err(RequestFailed(500))
        ELSE Err(ProviderError("InvalidResponse"))

\* the default generate over OpenAIProvider::execute
openai_generate(req, model, cache, reply, uuid) ==
    IF IsSome(reply.transport)
    THEN Outcome(Err(map_reqwest_error(reply.transport[1])), cache, 1, 0)
    ELSE LET body == response_json(reply.body)
             neutral == openai_parse_response_body(body.val)
         IN  IF ~body.ok THEN Outcome(body, cache, 1, 0)
             ELSE IF ~neutral.ok THEN Outcome(neutral, cache, 1, 0)
             ELSE Outcome(Ok(standard_completion_response(
                                 neutral.val, req, "openai", uuid)),
                          cache, 1, 0)

openai_stream(req, model, cache, reply) ==
    IF IsSome(reply.transport)
    THEN Outcome(Err(map_reqwest_error(reply.transport[1])), cache, 1, 0)
    ELSE IF ~is_success(reply.status)
        THEN Outcome(Err(RequestFailed(reply.status)), cache, 1, 0)
    ELSE Outcome(Ok(UpstreamStream), cache, 1, 0)

----------------------------------------------------------------------------
(* providers/mock.rs *)

\* a fixture file as written: [yaml_ok, responses, mode], a response being
\* [text, model_used, finish_reason, prompt_tokens, completion_tokens,
\*  total_tokens] with the optional fields as Options
parse_finish_reason(s) ==
    IF s \in {"stop", "length", "tool_calls", "content_filter", "function_call"}
    THEN s ELSE "stop"

\* serde_yml::from_str::<MockResponseFile>, with the serde defaults
parse_mock_file(raw) ==
    IF ~raw.yaml_ok THEN Err(ProviderError("Configuration"))
    ELSE Ok([responses |->
                 [i \in 1..Len(raw.responses) |->
                     [text |-> raw.responses[i].text,
                      model_used |-> IF IsSome(raw.responses[i].model_used)
                                     THEN raw.responses[i].model_used[1]
                                     ELSE <<"mock-model">>,
                      finish_reason |-> IF IsSome(raw.responses[i].finish_reason)
                                        THEN raw.responses[i].finish_reason[1]
                                        ELSE "stop",
                      prompt_tokens |-> raw.responses[i].prompt_tokens,
                      completion_tokens |-> raw.responses[i].completion_tokens,
                      total_tokens |-> raw.responses[i].total_tokens]],
             settings |-> [mode |-> IF IsSome(raw.mode) THEN raw.mode[1]
                                    ELSE "first"]])

extract_scenario(model) ==
    IF model # <<>> /\ model[1] = "mock-" THEN Ok(Tail(model))
    ELSE Err(ProviderError("Configuration"))

\* load_file: read and parse `path`, cache the fixture under `scenario`
load_file(path, scenario, cache, dir) ==
    LET parsed == parse_mock_file(dir[path])
    IN  IF ~parsed.ok THEN Outcome(parsed, cache, 0, 1)
        ELSE IF parsed.val.responses = <<>>
            THEN Outcome(Err(ProviderError("Configuration")), cache, 0, 1)
        ELSE Outcome(parsed,
                     [k \in DOMAIN cache \cup {scenario} |->
                         IF k = scenario THEN parsed.val ELSE cache[k]],
                     0, 1)

\* fault: a missing scenario file is an error even when default.yaml exists
load_responses_without_fallback(scenario, cache, dir) ==
    IF scenario \in DOMAIN cache THEN Outcome(Ok(cache[scenario]), cache, 0, 0)
    ELSE IF scenario \notin DOMAIN dir
        THEN Outcome(Err(ProviderError("Configuration")), cache, 0, 0)
    ELSE load_file(scenario, scenario, cache, dir)

load_responses(scenario, cache, dir) ==
    IF scenario \in DOMAIN cache THEN Outcome(Ok(cache[scenario]), cache, 0, 0)
    ELSE IF scenario \notin DOMAIN dir
        THEN IF <<"default">> \in DOMAIN dir
             THEN load_file(<<"default">>, <<"default">>, cache, dir)
             ELSE Outcome(Err(ProviderError("Configuration")), cache, 0, 0)
    ELSE load_file(scenario, scenario, cache, dir)

\* select_response with the cycling the TODO of the Sequential arm describes
select_response_cycling(file, index) ==
    IF file.settings.mode \in {"random", "sequential"} THEN file.responses[index]
    ELSE file.responses[1]

\* `index` is what the random mode draws
select_response(file, index) ==
    IF file.settings.mode = "random" THEN file.responses[index]
    ELSE file.responses[1]

\* the mock ids: format!("mock-{}-{}", scenario, Uuid::now_v7())
mock_request_id(scenario, uuid) ==
    <<"mock-">> \o scenario \o <<"-", uuid>>

\* the chunk sequence MockProvider::stream builds: the enumerated tokens, then
\* the final chunk
\* fault: the final chunk names the default model, not the response's
mock_stream_items_final_default_model(request_id, mock_response) ==
    LET tokens == tokenize_for_streaming(mock_response.text)
        chunks_stream ==
            [i \in 1..Len(tokens) |->
                IF i = 1
                THEN Ok(create_first_chunk(request_id, mock_response.model_used,
                                           "assistant"))
                ELSE Ok(create_content_chunk(request_id, mock_response.model_used,
                                             tokens[i]))]
        final_chunk ==
            Ok(create_final_chunk(request_id, <<"mock-model">>,
                                  parse_finish_reason(mock_response.finish_reason),
                                  usage_of(mock_response.prompt_tokens,
                                           mock_response.completion_tokens,
                                           mock_response.total_tokens)))
    IN  chunks_stream \o <<final_chunk>>

mock_stream_items(request_id, mock_response) ==
    LET tokens == tokenize_for_streaming(mock_response.text)
        chunks_stream ==
            [i \in 1..Len(tokens) |->
                IF i = 1
                THEN Ok(create_first_chunk(request_id, mock_response.model_used,
                                           "assistant"))
                ELSE Ok(create_content_chunk(request_id, mock_response.model_used,
                                             tokens[i]))]
        final_chunk ==
            Ok(create_final_chunk(request_id, mock_response.model_used,
                                  parse_finish_reason(mock_response.finish_reason),
                                  usage_of(mock_response.prompt_tokens,
                                           mock_response.completion_tokens,
                                           mock_response.total_tokens)))
    IN  chunks_stream \o <<final_chunk>>

mock_stream(req, model, cache, dir, index, uuid) ==
    LET scenario == extract_scenario(model)
        loaded == load_responses(scenario.val, cache, dir)
        mock_response == select_response(loaded.result.val, index)
    IN  IF ~scenario.ok THEN Outcome(scenario, cache, 0, 0)
        ELSE IF ~loaded.result.ok THEN loaded
        ELSE Outcome(Ok(ItemStream(mock_stream_items(
                            mock_request_id(scenario.val, uuid), mock_response))),
                     loaded.cache, 0, loaded.reads)

\* MockProvider::execute
mock_execute(model, cache, dir, index, uuid) ==
    LET scenario == extract_scenario(model)
        loaded == load_responses(scenario.val, cache, dir)
        mock_response == select_response(loaded.result.val, index)
    IN  IF ~scenario.ok THEN Outcome(scenario, cache, 0, 0)
        ELSE IF ~loaded.result.ok THEN loaded
        ELSE Outcome(Ok([text |-> mock_response.text,
                         model_used |-> mock_response.model_used,
                         finish_reason |->
                             Some(parse_finish_reason(mock_response.finish_reason)),
                         prompt_tokens |-> mock_response.prompt_tokens,
                         completion_tokens |-> mock_response.completion_tokens,
                         total_tokens |-> mock_response.total_tokens,
                         provider_request_id |->
                             Some(mock_request_id(scenario.val, uuid)),
                         tool_calls |-> None,
                         provider_data |->
                             Some([scenario |-> scenario.val,
                                   mode |-> loaded.result.val.settings.mode])]),
                     loaded.cache, 0, loaded.reads)

\* the default generate over MockProvider::execute
mock_generate(req, model, cache, dir, index, uuid) ==
    LET executed == mock_execute(model, cache, dir, index, uuid)
    IN  IF ~executed.result.ok THEN executed
        ELSE Outcome(Ok(standard_completion_response(
                            executed.result.val, req, "mock", uuid)),
                     executed.cache, 0, executed.reads)

----------------------------------------------------------------------------
(* main.rs: generate_completion *)

\* ApiError::Validation(e) and ApiError::Provider(e)
ApiError(kind, e) ==
    [kind |-> kind, error |-> e]

\* CompletionOrStream::Json(response) and CompletionOrStream::Stream(sse)
JsonResponse(body) ==
    [kind |-> "Json", body |-> body]

StreamResponse ==
    [kind |-> "Stream"]

\* state.provider.generate(&request, model) on the configured adapter
dyn_generate(p, req, model, cache, dir, reply, order, index, uuid) ==
    CASE p = "lmstudio" -> lmstudio_generate(req, model, cache, reply, order, uuid)
      [] p = "openai" -> openai_generate(req, model, cache, reply, uuid)
      [] OTHER -> mock_generate(req, model, cache, dir, index, uuid)

\* state.provider.stream(&request, model) on the configured adapter
dyn_stream(p, req, model, cache, dir, reply, order, index, uuid) ==
    CASE p = "lmstudio" -> lmstudio_stream(req, model, cache, reply, order)
      [] p = "openai" -> openai_stream(req, model, cache, reply)
      [] OTHER -> mock_stream(req, model, cache, dir, index, uuid)

\* fault: the allow-list check on the resolved model is left out
pipeline_without_allow_list(req, p, default, allowed) ==
    LET valid == validate_completion_request(req)
        model == determine_model(req.model, default, allowed)
        capable == validate_provider_capabilities(req, supports_streaming(p))
    IN  IF ~valid.ok
        THEN [stages |-> <<"validate_request">>,
              result |-> Err(ApiError("Validation", valid.err))]
        ELSE IF ~model.ok
            THEN [stages |-> <<"validate_request", "determine_model">>,
                  result |-> Err(ApiError("Validation", model.err))]
        ELSE IF ~capable.ok
            THEN [stages |-> <<"validate_request", "determine_model",
                               "validate_model_allowed",
                               "validate_provider_capabilities">>,
                  result |-> Err(ApiError("Validation", capable.err))]
        ELSE [stages |-> <<"validate_request", "determine_model",
                           "validate_model_allowed",
                           "validate_provider_capabilities">>,
              result |-> Ok(model.val)]

\* fault: the allow-list is applied to a model the request names, never to
\* the default model
pipeline_trusting_default_model(req, p, default, allowed) ==
    LET valid == validate_completion_request(req)
        model == determine_model(req.model, default, allowed)
        allow == IF IsSome(req.model)
                 THEN validate_model_allowed(model.val, allowed)
                 ELSE Ok("allowed")
        capable == validate_provider_capabilities(req, supports_streaming(p))
    IN  IF ~valid.ok
        THEN [stages |-> <<"validate_request">>,
              result |-> Err(ApiError("Validation", valid.err))]
        ELSE IF ~model.ok
            THEN [stages |-> <<"validate_request", "determine_model">>,
                  result |-> Err(ApiError("Validation", model.err))]
        ELSE IF ~allow.ok
            THEN [stages |-> <<"validate_request", "determine_model",
                               "validate_model_allowed">>,
                  result |-> Err(ApiError("Validation", allow.err))]
        ELSE IF ~capable.ok
            THEN [stages |-> <<"validate_request", "determine_model",
                               "validate_model_allowed",
                               "validate_provider_capabilities">>,
                  result |-> Err(ApiError("Validation", capable.err))]
        ELSE [stages |-> <<"validate_request", "determine_model",
                           "validate_model_allowed",
                           "validate_provider_capabilities">>,
              result |-> Ok(model.val)]

\* the stages of generate_completion that come before the adapter: the stages
\* run, in order, and the resolved model or the error of the `?` that returned
pipeline(req, p, default, allowed) ==
    LET valid == validate_completion_request(req)
        model == determine_model(req.model, default, allowed)
        allow == validate_model_allowed(model.val, allowed)
        capable == validate_provider_capabilities(req, supports_streaming(p))
    IN  IF ~valid.ok
        THEN [stages |-> <<"validate_request">>,
              result |-> Err(ApiError("Validation", valid.err))]
        ELSE IF ~model.ok
            THEN [stages |-> <<"validate_request", "determine_model">>,
                  result |-> Err(ApiError("Validation", model.err))]
        ELSE IF ~allow.ok
            THEN [stages |-> <<"validate_request", "determine_model",
                               "validate_model_allowed">>,
                  result |-> Err(ApiError("Validation", allow.err))]
        ELSE IF ~capable.ok
            THEN [stages |-> <<"validate_request", "determine_model",
                               "validate_model_allowed",
                               "validate_provider_capabilities">>,
                  result |-> Err(ApiError("Validation", capable.err))]
        ELSE [stages |-> <<"validate_request", "determine_model",
                           "validate_model_allowed",
                           "validate_provider_capabilities">>,
              result |-> Ok(model.val)]

\* the adapter method the handler goes on to call once the stages passed
adapter_method(req) ==
    IF req.stream = Some(TRUE) THEN "stream" ELSE "generate"

\* fault: a failure of adapter.stream is reported inside an SSE body
generate_completion_failing_in_band(req, reply, order, index, uuid) ==
    /\ pc = "idle"
    /\ LET pre == pipeline(req, provider, default_model, allowed_models)
           streaming == req.stream = Some(TRUE)
           out == IF streaming
                  THEN dyn_stream(provider, req, pre.result.val, response_cache,
                                  files, reply, order, index, uuid)
                  ELSE dyn_generate(provider, req, pre.result.val, response_cache,
                                    files, reply, order, index, uuid)
       IN  /\ request' = Some(req)
           /\ stages' = pre.stages
           /\ IF ~pre.result.ok
              THEN /\ response' = Some(pre.result)
                   /\ pc' = "done"
                   /\ UNCHANGED <<adapter_calls, response_cache, upstream_posts,
                                  fixture_reads, upstream_reply,
                                  provider_stream, sse>>
              ELSE /\ adapter_calls' = <<adapter_method(req)>>
                   /\ response_cache' = out.cache
                   /\ upstream_posts' = out.posts
                   /\ fixture_reads' = out.reads
                   /\ upstream_reply' = IF out.posts > 0 THEN Some(reply)
                                        ELSE None
                   /\ IF ~out.result.ok
                      THEN /\ response' = Some(Err(ApiError("Provider",
                                                            out.result.err)))
                           /\ sse' = IF streaming
                                     THEN <<to_sse_event(out.result), DoneEvent>>
                                     ELSE sse
                           /\ pc' = "done"
                           /\ UNCHANGED provider_stream
                      ELSE IF streaming
                          THEN /\ response' = Some(Ok(StreamResponse))
                               /\ provider_stream' = Some(out.result.val)
                               /\ pc' = "streaming"
                               /\ sse' = sse
                      ELSE /\ response' = Some(Ok(JsonResponse(out.result.val)))
                           /\ pc' = "done"
                           /\ UNCHANGED <<provider_stream, sse>>
    /\ UNCHANGED <<provider, default_model, allowed_models, files,
                   adapter_items, pj, mc, call, boot>>

\* The handler, from the request's arrival to its return value.  `reply` is
\* what the upstream does with a POST, `order` the iteration order of the
\* extensions map, `index` the draw of the mock's random mode, `uuid` the
\* fresh id.
generate_completion(req, reply, order, index, uuid) ==
    /\ pc = "idle"
    /\ LET pre == pipeline(req, provider, default_model, allowed_models)
           streaming == req.stream = Some(TRUE)
           out == IF streaming
                  THEN dyn_stream(provider, req, pre.result.val, response_cache,
                                  files, reply, order, index, uuid)
                  ELSE dyn_generate(provider, req, pre.result.val, response_cache,
                                    files, reply, order, index, uuid)
       IN  /\ request' = Some(req)
           /\ stages' = pre.stages
           /\ IF ~pre.result.ok
              THEN /\ response' = Some(pre.result)
                   /\ pc' = "done"
                   /\ UNCHANGED <<adapter_calls, response_cache, upstream_posts,
                                  fixture_reads, upstream_reply,
                                  provider_stream>>
              ELSE /\ adapter_calls' = <<adapter_method(req)>>
                   /\ response_cache' = out.cache
                   /\ upstream_posts' = out.posts
                   /\ fixture_reads' = out.reads
                   /\ upstream_reply' = IF out.posts > 0 THEN Some(reply)
                                        ELSE None
                   /\ IF ~out.result.ok
                      THEN /\ response' = Some(Err(ApiError("Provider",
                                                            out.result.err)))
                           /\ pc' = "done"
                           /\ UNCHANGED provider_stream
                      ELSE IF streaming
                          THEN /\ response' = Some(Ok(StreamResponse))
                               /\ provider_stream' = Some(out.result.val)
                               /\ pc' = "streaming"
                      ELSE /\ response' = Some(Ok(JsonResponse(out.result.val)))
                           /\ pc' = "done"
                           /\ UNCHANGED provider_stream
    /\ UNCHANGED <<provider, default_model, allowed_models, files,
                   adapter_items, sse, pj, mc, call, boot>>

\* fault: the event of the chunk polled is written ahead of the earlier ones
poll_mock_stream_prepending ==
    /\ pc = "streaming"
    /\ provider_stream[1].kind = "items"
    /\ provider_stream[1].rest # <<>>
    /\ LET item == Head(provider_stream[1].rest)
       IN  /\ adapter_items' = Append(adapter_items, item)
           /\ sse' = <<to_sse_event(item)>> \o sse
    /\ provider_stream' = Some(ItemStream(Tail(provider_stream[1].rest)))
    /\ UNCHANGED <<provider, default_model, allowed_models, files,
                   response_cache, pc, request, stages, adapter_calls,
                   upstream_posts, fixture_reads, upstream_reply, response,
                   pj, mc, call, boot>>

\* The SSE body polls the mock's stream: the next chunk is yielded and mapped
\* to its event.
poll_mock_stream ==
    /\ pc = "streaming"
    /\ provider_stream[1].kind = "items"
    /\ provider_stream[1].rest # <<>>
    /\ LET item == Head(provider_stream[1].rest)
       IN  /\ adapter_items' = Append(adapter_items, item)
           /\ sse' = Append(sse, to_sse_event(item))
    /\ provider_stream' = Some(ItemStream(Tail(provider_stream[1].rest)))
    /\ UNCHANGED <<provider, default_model, allowed_models, files,
                   response_cache, pc, request, stages, adapter_calls,
                   upstream_posts, fixture_reads, upstream_reply, response,
                   pj, mc, call, boot>>

\* the upstream body after one more SSE event was read from it
next_event(stream, ev) ==
    [stream EXCEPT
        !.received = @ + 1,
        !.done_received = @ \/ (ev.ok /\ ev.val.data = Literal("[DONE]"))]

\* fault: an error item ends the SSE body after its error event
poll_upstream_stream_aborting(ev) ==
    /\ pc = "streaming"
    /\ provider_stream[1].kind = "upstream"
    /\ provider_stream[1].received < MaxUpstreamEvents
    /\ LET item == sse_filter_map(ev)
       IN  IF IsSome(item)
           THEN /\ adapter_items' = Append(adapter_items, item[1])
                /\ sse' = Append(sse, to_sse_event(item[1]))
                /\ IF item[1].ok
                   THEN /\ pc' = pc
                        /\ provider_stream' =
                              Some(next_event(provider_stream[1], ev))
                   ELSE /\ pc' = "done"
                        /\ provider_stream' = None
           ELSE /\ UNCHANGED <<adapter_items, sse, pc>>
                /\ provider_stream' =
                      Some(next_event(provider_stream[1], ev))
    /\ UNCHANGED <<provider, default_model, allowed_models, files,
                   response_cache, request, stages, adapter_calls,
                   upstream_posts, fixture_reads, upstream_reply, response,
                   pj, mc, call, boot>>

\* The SSE body polls an HTTP adapter's stream and the upstream delivers the
\* SSE event `ev` (or fails): filter_map drops it or yields an item, which is
\* mapped to its event.
poll_upstream_stream(ev) ==
    /\ pc = "streaming"
    /\ provider_stream[1].kind = "upstream"
    /\ provider_stream[1].received < MaxUpstreamEvents
    /\ LET item == sse_filter_map(ev)
       IN  IF IsSome(item)
           THEN /\ adapter_items' = Append(adapter_items, item[1])
                /\ sse' = Append(sse, to_sse_event(item[1]))
           ELSE UNCHANGED <<adapter_items, sse>>
    /\ provider_stream' =
           Some(next_event(provider_stream[1], ev))
    /\ UNCHANGED <<provider, default_model, allowed_models, files,
                   response_cache, pc, request, stages, adapter_calls,
                   upstream_posts, fixture_reads, upstream_reply, response,
                   pj, mc, call, boot>>

\* fault: the SSE body ends without the chained [DONE] event
end_of_stream_without_done ==
    /\ pc = "streaming"
    /\ provider_stream[1].kind = "items" => provider_stream[1].rest = <<>>
    /\ provider_stream' = None
    /\ pc' = "done"
    /\ UNCHANGED <<provider, default_model, allowed_models, files,
                   response_cache, request, stages, adapter_calls,
                   upstream_posts, fixture_reads, upstream_reply, response,
                   adapter_items, sse, pj, mc, call, boot>>

\* The provider stream is exhausted (the mock has no chunk left, the upstream
\* closed the body): the chained once() yields the [DONE] event and the SSE
\* body ends.
end_of_stream ==
    /\ pc = "streaming"
    /\ provider_stream[1].kind = "items" => provider_stream[1].rest = <<>>
    /\ sse' = Append(sse, DoneEvent)
    /\ provider_stream' = None
    /\ pc' = "done"
    /\ UNCHANGED <<provider, default_model, allowed_models, files,
                   response_cache, request, stages, adapter_calls,
                   upstream_posts, fixture_reads, upstream_reply, response,
                   adapter_items, pj, mc, call, boot>>

\* The response has been delivered; the server takes the next request.  The
\* mock's fixture cache lives on.
\* fault: the events written for a request stay behind for the next one
next_request_keeping_sse ==
    /\ pc = "done"
    /\ pc' = "idle"
    /\ request' = None
    /\ stages' = <<>>
    /\ adapter_calls' = <<>>
    /\ upstream_posts' = 0
    /\ fixture_reads' = 0
    /\ upstream_reply' = None
    /\ response' = None
    /\ provider_stream' = None
    /\ adapter_items' = <<>>
    /\ UNCHANGED <<provider, default_model, allowed_models, files,
                   response_cache, sse, pj, mc, call, boot>>

next_request ==
    /\ pc = "done"
    /\ pc' = "idle"
    /\ request' = None
    /\ stages' = <<>>
    /\ adapter_calls' = <<>>
    /\ upstream_posts' = 0
    /\ fixture_reads' = 0
    /\ upstream_reply' = None
    /\ response' = None
    /\ provider_stream' = None
    /\ adapter_items' = <<>>
    /\ sse' = <<>>
    /\ UNCHANGED <<provider, default_model, allowed_models, files,
                   response_cache, pj, mc, call, boot>>

----------------------------------------------------------------------------
(* providers/mod.rs: HttpProviderClient::post_json *)

\* what the upstream does with one attempt of post_json
PostJsonReplies ==
    {[transport |-> Some(e), status |-> 0, body |-> Literal("")] :
        e \in TransportErrors}
      \cup {[transport |-> None, status |-> st, body |-> b] :
              st \in Statuses \cup {304},
              b \in {JsonText([answer |-> TRUE]), Literal("<html>")}}

\* the locals of post_json on entry: the loop is about to run attempt 0
post_json_entry(max_retries, backoff_ms) ==
    [max_retries |-> max_retries, backoff_ms |-> backoff_ms, attempt |-> 0,
     last_error |-> None, replies |-> <<>>, delays |-> <<>>, result |-> None]

\* fault: the loop runs 0..max_retries exclusive, one attempt short
retry_or_give_up_one_short(loop, error) ==
    IF loop.attempt + 1 < loop.max_retries
    THEN [loop EXCEPT !.attempt = @ + 1, !.last_error = Some(error)]
    ELSE [loop EXCEPT !.attempt = @ + 1, !.last_error = Some(error),
                      !.result = Some(Err(error))]

\* ProviderError::ConnectionFailed("All retry attempts exhausted")
AllRetryAttemptsExhausted ==
    [type |-> "ConnectionFailed", message |-> "All retry attempts exhausted"]

\* fault: the end of post_json forgets the error it kept
post_json_exhausted_forgetting(loop) ==
    Err(AllRetryAttemptsExhausted)

\* the statement after the loop: Err(last_error.unwrap_or(...))
post_json_exhausted(loop) ==
    Err(IF IsSome(loop.last_error) THEN loop.last_error[1]
        ELSE AllRetryAttemptsExhausted)

\* what the loop does after an attempt that ended in `continue` with `error`:
\* the next attempt, or, the range exhausted, the Err at the end of post_json
retry_or_give_up(loop, error) ==
    LET kept == [loop EXCEPT !.attempt = @ + 1, !.last_error = Some(error)]
    IN  IF loop.attempt < loop.max_retries
        THEN kept
        ELSE [kept EXCEPT !.result = Some(post_json_exhausted(kept))]

\* the width of the u64 that holds backoff_ms and the delay
u64_BITS ==
    64

RECURSIVE bit_length(_)
\* the number of bits of n: 0 for 0, k for 2^(k-1) <= n < 2^k
bit_length(n) ==
    IF n = 0 THEN 0 ELSE 1 + bit_length(n \div 2)

RECURSIVE Millis(_, _)
\* the number ms * 2^shl of milliseconds, written with ms odd (or zero), so
\* that equal numbers are equal records and 2^64 never has to be computed
Millis(ms, shl) ==
    IF ms = 0 THEN [ms |-> 0, shl |-> 0]
    ELSE IF ms % 2 = 0 THEN Millis(ms \div 2, shl + 1)
    ELSE [ms |-> ms, shl |-> shl]

\* `backoff_ms * 2u64.pow(attempt - 1)`: the power or the product may exceed
\* u64; a build with overflow checks then panics, one without wraps (the
\* power of 64 or more to 0, the product modulo 2^64)
retry_delay(backoff_ms, attempt, overflow_checks) ==
    LET shl == attempt - 1
        pow_overflows == shl >= u64_BITS
        mul_overflows == bit_length(backoff_ms) + shl > u64_BITS
    IN  IF ~pow_overflows /\ ~mul_overflows THEN Ok(Millis(backoff_ms, shl))
        ELSE IF overflow_checks THEN Err("panic")
        ELSE IF pow_overflows THEN Ok(Millis(0, 0))
        ELSE Ok(Millis(backoff_ms % (2 ^ (u64_BITS - shl)), shl))

\* one iteration of `for attempt in 0..=max_retries`, answered by `reply`; the
\* attempts explored are far from the overflow of the delay, where both kinds
\* of build compute the same
post_json_iteration(loop, reply) ==
    LET slept == IF loop.attempt > 0
                 THEN [loop EXCEPT !.delays =
                          Append(@, retry_delay(loop.backoff_ms, loop.attempt,
                                                TRUE).val)]
                 ELSE loop
        sent == [slept EXCEPT !.replies = Append(@, reply)]
    IN  IF IsSome(reply.transport)
        THEN IF map_reqwest_error(reply.transport[1]).type
                    \in {"Timeout", "ConnectionFailed"}
             THEN retry_or_give_up(sent, map_reqwest_error(reply.transport[1]))
             ELSE [sent EXCEPT !.result =
                      Some(Err(map_reqwest_error(reply.transport[1])))]
        ELSE IF ~is_success(reply.status)
            THEN IF is_client_error(reply.status)
                 THEN [sent EXCEPT !.result =
                          Some(Err(RequestFailed(reply.status)))]
                 ELSE retry_or_give_up(sent, RequestFailed(reply.status))
        ELSE [sent EXCEPT !.result = Some(response_json(reply.body))]

\* post_json runs its next attempt
post_json_attempt(reply) ==
    /\ IsSome(pj)
    /\ IsNone(pj[1].result)
    /\ pj' = Some(post_json_iteration(pj[1], reply))
    /\ UNCHANGED <<handlerVars, mc, call, boot>>

\* fault: a failed streaming POST is sent a second time
post_stream_resending(reply) ==
    IF IsSome(reply.transport) \/ ~is_success(reply.status)
    THEN [result |-> Ok(reply), posts |-> 2]
    ELSE [result |-> Ok(reply), posts |-> 1]

\* HttpProviderClient::post_stream answered by `reply`: the result and the
\* number of POSTs sent
post_stream(reply) ==
    IF IsSome(reply.transport)
    THEN [result |-> Err(map_reqwest_error(reply.transport[1])), posts |-> 1]
    ELSE IF ~is_success(reply.status)
        THEN [result |-> Err(RequestFailed(reply.status)), posts |-> 1]
    ELSE [result |-> Ok(reply), posts |-> 1]

----------------------------------------------------------------------------
(* The deployments and the requests explored *)

Chars ==
    {"a", "b", " "}

\* the fixture texts: every text of at most MaxTextLen characters
Texts ==
    UNION {[1..n -> Chars] : n \in 0..MaxTextLen}

\* a response of a fixture file that sets only `text`
PlainResponse(text) ==
    [text |-> text, model_used |-> None, finish_reason |-> None,
     prompt_tokens |-> None, completion_tokens |-> None, total_tokens |-> None]

\* a response of a fixture file that sets every field
FullResponse(text) ==
    [text |-> text, model_used |-> Some(<<"mock-", "demo">>),
     finish_reason |-> Some("length"), prompt_tokens |-> Some(2),
     completion_tokens |-> Some(3), total_tokens |-> Some(5)]

FixtureFiles ==
    {[yaml_ok |-> TRUE, responses |-> <<r>>, mode |-> None] :
        r \in {PlainResponse(t) : t \in Texts} \cup {FullResponse(t) : t \in Texts}}
      \cup {[yaml_ok |-> TRUE,
             responses |-> <<[PlainResponse(<<"a">>) EXCEPT
                                 !.finish_reason = Some("eos")]>>,
             mode |-> None],
            [yaml_ok |-> TRUE,
             responses |-> <<PlainResponse(<<"a">>), FullResponse(<<"b", " ", "a">>)>>,
             mode |-> Some("random")],
            [yaml_ok |-> TRUE,
             responses |-> <<PlainResponse(<<"a">>), FullResponse(<<"b", " ", "a">>)>>,
             mode |-> Some("sequential")],
            [yaml_ok |-> TRUE, responses |-> <<>>, mode |-> None],
            [yaml_ok |-> FALSE, responses |-> <<>>, mode |-> None]}

DefaultFile ==
    [yaml_ok |-> TRUE, responses |-> <<PlainResponse(<<"b">>)>>, mode |-> None]

\* the contents of responses_dir: file stem -> file
ResponseDirs ==
    {[k \in {<<"demo">>} |-> f] : f \in FixtureFiles}
      \cup {[k \in {<<"default">>} |-> DefaultFile],
            [k \in {<<"demo">>, <<"default">>} |->
                IF k = <<"demo">> THEN [DefaultFile EXCEPT !.yaml_ok = FALSE]
                ELSE DefaultFile],
            <<>>}

\* (provider, default_model, allowed_models, files)
Deployments ==
    {<<"mock", <<"mock-", "demo">>, None, d>> : d \in ResponseDirs}
      \cup {<<"mock", <<"mock-", "demo">>, a,
              [k \in {<<"demo">>} |->
                  [yaml_ok |-> TRUE, responses |-> <<FullResponse(<<"a", " ", "b">>)>>,
                   mode |-> None]]>> :
              a \in {Some({<<"mock-", "demo">>}), Some({<<"gpt-4">>})}}
      \cup {<<p, <<"gpt-4">>, a, <<>>>> :
              p \in {"lmstudio", "openai"},
              a \in {None, Some({<<"gpt-4">>})}}

UserMessage ==
    [role |-> "user", content |-> Some(<<"h", "i">>), tool_calls |-> None,
     tool_call_id |-> None]

IntValue(v) ==
    [t |-> "int", v |-> v]

ExtensionMaps ==
    {None,
     Some([k \in {"top_k"} |-> IntValue(40)]),
     Some([k \in {"top_k"} |-> IntValue(0)]),
     Some([k \in {"bogus"} |-> IntValue(1)])}

BaseRequest(messages, model, stream, extensions) ==
    [messages |-> messages, model |-> model, stream |-> stream,
     extensions |-> extensions, max_tokens |-> None, temperature |-> None,
     top_p |-> None, frequency_penalty |-> None, presence_penalty |-> None,
     top_logprobs |-> None, n |-> None, logit_bias |-> None,
     response_mode |-> None]

\* the request bodies explored: every combination of model, stream and
\* extensions on a well-formed request, and requests failing validation
Requests ==
    {BaseRequest(<<UserMessage>>, model, stream, extensions) :
        model \in {None, Some(<<"mock-", "demo">>), Some(<<"mock-", "nofile">>),
                   Some(<<"gpt-4">>)},
        stream \in {None, Some(TRUE), Some(FALSE)},
        extensions \in ExtensionMaps}
      \cup {BaseRequest(messages, model, stream, None) :
              messages \in {<<>>, <<[UserMessage EXCEPT !.content = None]>>},
              model \in {None, Some(<<"mock-", "nofile">>)},
              stream \in {None, Some(TRUE)}}
      \cup {[BaseRequest(<<UserMessage>>, None, None, None)
                EXCEPT !.temperature = Some(21)],
            [BaseRequest(<<UserMessage>>, None, Some(TRUE), None)
                EXCEPT !.max_tokens = Some(0)],
            [BaseRequest(<<UserMessage>>, None, None, None)
                EXCEPT !.n = Some(11)],
            [BaseRequest(<<UserMessage>>, None, None, None)
                EXCEPT !.response_mode = Some("extended")]}

\* the orders in which a HashMap may yield the keys of `extensions`
KeyOrders(extensions) ==
    IF IsNone(extensions) THEN {<<>>}
    ELSE {order \in UNION {[1..n -> DOMAIN extensions[1]] :
                              n \in {Cardinality(DOMAIN extensions[1])}} :
             \A i, j \in DOMAIN order : i # j => order[i] # order[j]}

\* Uuid::now_v7()
UUIDs ==
    {"u1", "u2"}

\* what the upstream may answer to the adapters' POST: a body to a unary
\* request, an event stream (delivered event by event) to a streaming one;
\* the mock sends no POST
Replies(p, req) ==
    IF p = "mock" THEN {[transport |-> None, status |-> 200, body |-> Literal("")]}
    ELSE IF req.stream = Some(TRUE)
        THEN {r \in UpstreamReplies(<<"gpt-4">>) :
                 r.body \in {Literal(""), Literal("<html>")}}
    ELSE UpstreamReplies(<<"gpt-4">>)

\* what random_range(0..len) may draw
Draws(p) ==
    IF p = "mock" THEN {1, 2} ELSE {1}

UpstreamChunks ==
    {create_content_chunk(<<"chatcmpl-", "x">>, <<"gpt-4">>, <<"h", "i">>),
     create_final_chunk(<<"chatcmpl-", "x">>, <<"gpt-4">>, "stop", None)}

\* what the upstream may deliver on an open streaming body
UpstreamEvents ==
    {Ok(Event(JsonText(SerializeStreamChunk(c)))) : c \in UpstreamChunks}
      \cup {Ok(DoneEvent),
            Ok(Event(JsonText([unexpected |-> TRUE]))),
            Ok(Event(Literal("{oops"))),
            Err("transport")}

----------------------------------------------------------------------------
(* The gateway serving chat-completion requests, one at a time *)

Init ==
    /\ \E d \in Deployments :
          /\ provider = d[1]
          /\ default_model = d[2]
          /\ allowed_models = d[3]
          /\ files = d[4]
    /\ response_cache = <<>>
    /\ pc = "idle"
    /\ request = None
    /\ stages = <<>>
    /\ adapter_calls = <<>>
    /\ upstream_posts = 0
    /\ fixture_reads = 0
    /\ upstream_reply = None
    /\ response = None
    /\ provider_stream = None
    /\ adapter_items = <<>>
    /\ sse = <<>>
    /\ pj = None
    /\ mc = None
    /\ call = None
    /\ boot = None

Next ==
    \/ /\ pc = "idle"
       /\ \E req \in Requests, index \in Draws(provider), uuid \in UUIDs :
             \E reply \in Replies(provider, req),
                order \in KeyOrders(req.extensions) :
                generate_completion(req, reply, order, index, uuid)
    \/ poll_mock_stream
    \/ \E ev \in UpstreamEvents : poll_upstream_stream(ev)
    \/ end_of_stream
    \/ next_request

Spec ==
    Init /\ [][Next]_vars

----------------------------------------------------------------------------
(* One call of post_json against an upstream that answers as it pleases *)

RetryInit ==
    /\ provider = "lmstudio"
    /\ default_model = <<"gpt-4">>
    /\ allowed_models = None
    /\ files = <<>>
    /\ response_cache = <<>>
    /\ pc = "idle"
    /\ request = None
    /\ stages = <<>>
    /\ adapter_calls = <<>>
    /\ upstream_posts = 0
    /\ fixture_reads = 0
    /\ upstream_reply = None
    /\ response = None
    /\ provider_stream = None
    /\ adapter_items = <<>>
    /\ sse = <<>>
    /\ \E max_retries \in 0..MaxRetriesBound :
          pj = Some(post_json_entry(max_retries, default_retry_backoff_ms))
    /\ mc = None
    /\ call = None
    /\ boot = None

RetryNext ==
    \E reply \in PostJsonReplies : post_json_attempt(reply)

SpecRetry ==
    RetryInit /\ [][RetryNext]_vars

\* every send().await ends, with an answer or with an error of the client,
\* and every sleep ends
SpecRetryFair ==
    SpecRetry /\ WF_vars(RetryNext)

----------------------------------------------------------------------------
(* providers/mock.rs: load_responses run by concurrent requests.  The mutex  *)
(* is held for the cache lookup and for the insert, not in between; the     *)
(* fixture files may change on disk while the process runs.                 *)

\* the tokio tasks serving requests at the same time
Tasks ==
    {"t1", "t2"}

\* the most calls of load_responses explored
MaxLoads ==
    3

\* the most changes to files of responses_dir explored
MaxDiskChanges ==
    1

\* the scenarios the requests name
CacheScenarios ==
    {<<"demo">>, <<"nofile">>}

\* the files of responses_dir that exist or come to exist
CachePaths ==
    {<<"demo">>, <<"default">>}

FileA ==
    [yaml_ok |-> TRUE, responses |-> <<PlainResponse(<<"a">>)>>, mode |-> None]

DiskFiles ==
    {FileA, DefaultFile}

\* a responses_dir holding some of CachePaths
CacheDirs ==
    {[k \in present |-> IF k = <<"demo">> THEN FileA ELSE DefaultFile] :
        present \in SUBSET CachePaths}

\* a task outside load_responses; `result` is what its last call returned
IdleTask ==
    [pc |-> "idle", scenario |-> <<>>, path |-> <<>>, key |-> <<>>,
     file |-> <<>>, result |-> None]

\* cache.insert(scenario.to_string(), response_file.clone())
cache_insert(cache, scenario, file) ==
    [k \in DOMAIN cache \cup {scenario} |->
        IF k = scenario THEN file ELSE cache[k]]

cacheOtherVars ==
    <<provider, default_model, allowed_models, pc, request, stages,
      adapter_calls, upstream_posts, fixture_reads, upstream_reply, response,
      provider_stream, adapter_items, sse, pj, call, boot>>

\* a request task enters load_responses(scenario); its first statement is the
\* lock() of the lookup block
load_responses_call(t, scenario) ==
    /\ IsSome(mc)
    /\ mc[1].tasks[t].pc = "idle"
    /\ mc[1].loads < MaxLoads
    /\ mc' = Some([mc[1] EXCEPT
                      !.loads = @ + 1,
                      !.tasks[t] = [IdleTask EXCEPT !.pc = "lock_lookup",
                                                    !.scenario = scenario]])
    /\ UNCHANGED <<files, response_cache, cacheOtherVars>>

\* self.response_cache.lock(): returns once no other task holds the mutex
cache_lock(t) ==
    /\ IsSome(mc)
    /\ mc[1].tasks[t].pc \in {"lock_lookup", "lock_insert"}
    /\ IsNone(mc[1].lock)
    /\ mc' = Some([mc[1] EXCEPT
                      !.lock = Some(t),
                      !.tasks[t].pc = IF @ = "lock_lookup" THEN "lookup"
                                      ELSE "insert"])
    /\ UNCHANGED <<files, response_cache, cacheOtherVars>>

\* fault: the guard of the lookup block lives on after a miss
load_responses_lookup_keeping_lock(t) ==
    /\ IsSome(mc)
    /\ mc[1].tasks[t].pc = "lookup"
    /\ LET scenario == mc[1].tasks[t].scenario
       IN  mc' = Some([mc[1] EXCEPT
                      !.lock = IF scenario \in DOMAIN response_cache
                               THEN None ELSE @,
                      !.tasks[t] =
                          IF scenario \in DOMAIN response_cache
                          THEN [IdleTask EXCEPT
                                   !.scenario = scenario,
                                   !.result = Some(Ok(response_cache[scenario]))]
                          ELSE [IdleTask EXCEPT
                                   !.pc = "probe", !.scenario = scenario]])
    /\ UNCHANGED <<files, response_cache, cacheOtherVars>>

\* load_responses, first block: the cache lookup under the mutex; the guard
\* is dropped at the end of the block, hit or miss
load_responses_lookup(t) ==
    /\ IsSome(mc)
    /\ mc[1].tasks[t].pc = "lookup"
    /\ LET scenario == mc[1].tasks[t].scenario
       IN  mc' = Some([mc[1] EXCEPT
                      !.lock = None,
                      !.tasks[t] =
                          IF scenario \in DOMAIN response_cache
                          THEN [IdleTask EXCEPT
                                   !.scenario = scenario,
                                   !.result = Some(Ok(response_cache[scenario]))]
                          ELSE [IdleTask EXCEPT
                                   !.pc = "probe", !.scenario = scenario]])
    /\ UNCHANGED <<files, response_cache, cacheOtherVars>>

\* fault: the fallback caches default.yaml under the scenario asked for
load_responses_probe_keyed_by_scenario(t) ==
    /\ IsSome(mc)
    /\ mc[1].tasks[t].pc = "probe"
    /\ LET task == mc[1].tasks[t]
       IN  mc' = Some([mc[1] EXCEPT !.tasks[t] =
                  IF task.scenario \in DOMAIN files
                  THEN [task EXCEPT !.pc = "read", !.path = task.scenario,
                                    !.key = task.scenario]
                  ELSE IF <<"default">> \in DOMAIN files
                      THEN [task EXCEPT !.pc = "read", !.path = <<"default">>,
                                        !.key = task.scenario]
                  ELSE [IdleTask EXCEPT
                           !.scenario = task.scenario,
                           !.result = Some(Err(ProviderError("Configuration")))]])
    /\ UNCHANGED <<files, response_cache, cacheOtherVars>>

\* load_responses, after a miss: file_path.exists(), default_path.exists()
load_responses_probe(t) ==
    /\ IsSome(mc)
    /\ mc[1].tasks[t].pc = "probe"
    /\ LET task == mc[1].tasks[t]
       IN  mc' = Some([mc[1] EXCEPT !.tasks[t] =
                  IF task.scenario \in DOMAIN files
                  THEN [task EXCEPT !.pc = "read", !.path = task.scenario,
                                    !.key = task.scenario]
                  ELSE IF <<"default">> \in DOMAIN files
                      THEN [task EXCEPT !.pc = "read", !.path = <<"default">>,
                                        !.key = <<"default">>]
                  ELSE [IdleTask EXCEPT
                           !.scenario = task.scenario,
                           !.result = Some(Err(ProviderError("Configuration")))]])
    /\ UNCHANGED <<files, response_cache, cacheOtherVars>>

\* load_file: read_to_string, serde_yml::from_str, the is_empty test
load_file_read(t) ==
    /\ IsSome(mc)
    /\ mc[1].tasks[t].pc = "read"
    /\ LET task == mc[1].tasks[t]
           failed == [IdleTask EXCEPT
                         !.scenario = task.scenario,
                         !.result = Some(Err(ProviderError("Configuration")))]
       IN  IF task.path \notin DOMAIN files
           THEN mc' = Some([mc[1] EXCEPT !.tasks[t] = failed])
           ELSE LET parsed == parse_mock_file(files[task.path])
                IN  mc' = Some([mc[1] EXCEPT
                           !.parses[task.path] = @ + 1,
                           !.tasks[t] =
                               IF ~parsed.ok THEN failed
                               ELSE IF parsed.val.responses = <<>> THEN failed
                               ELSE [task EXCEPT !.pc = "lock_insert",
                                                 !.file = parsed.val]])
    /\ UNCHANGED <<files, response_cache, cacheOtherVars>>

\* load_file, last block: the insert under the mutex, and the return
load_file_insert(t) ==
    /\ IsSome(mc)
    /\ mc[1].tasks[t].pc = "insert"
    /\ LET task == mc[1].tasks[t]
       IN  /\ response_cache' = cache_insert(response_cache, task.key, task.file)
           /\ mc' = Some([mc[1] EXCEPT
                          !.lock = None,
                          !.tasks[t] =
                             [IdleTask EXCEPT !.scenario = task.scenario,
                                              !.result = Some(Ok(task.file))]])
    /\ UNCHANGED <<files, cacheOtherVars>>

\* somebody writes or deletes a fixture file
disk_change(path, content) ==
    /\ IsSome(mc)
    /\ mc[1].disk_changes < MaxDiskChanges
    /\ files' = IF IsSome(content)
                THEN [k \in DOMAIN files \cup {path} |->
                         IF k = path THEN content[1] ELSE files[k]]
                ELSE [k \in DOMAIN files \ {path} |-> files[k]]
    /\ files' # files
    /\ mc' = Some([mc[1] EXCEPT !.disk_changes = @ + 1])
    /\ UNCHANGED <<response_cache, cacheOtherVars>>

CacheInit ==
    /\ provider = "mock"
    /\ default_model = <<"mock-", "demo">>
    /\ allowed_models = None
    /\ files \in CacheDirs
    /\ response_cache = <<>>
    /\ pc = "idle"
    /\ request = None
    /\ stages = <<>>
    /\ adapter_calls = <<>>
    /\ upstream_posts = 0
    /\ fixture_reads = 0
    /\ upstream_reply = None
    /\ response = None
    /\ provider_stream = None
    /\ adapter_items = <<>>
    /\ sse = <<>>
    /\ pj = None
    /\ mc = Some([tasks |-> [t \in Tasks |-> IdleTask],
                  parses |-> [path \in CachePaths |-> 0],
                  lock |-> None, loads |-> 0, disk_changes |-> 0])
    /\ call = None
    /\ boot = None

CacheNext ==
    \/ \E t \in Tasks, scenario \in CacheScenarios :
          load_responses_call(t, scenario)
    \/ \E t \in Tasks : cache_lock(t)
    \/ \E t \in Tasks : load_responses_lookup(t)
    \/ \E t \in Tasks : load_responses_probe(t)
    \/ \E t \in Tasks : load_file_read(t)
    \/ \E t \in Tasks : load_file_insert(t)
    \/ \E path \in CachePaths, content \in {None} \cup {Some(f) : f \in DiskFiles} :
          disk_change(path, content)

SpecCache ==
    CacheInit /\ [][CacheNext]_vars

\* the steps of task t inside load_responses
task_step(t) ==
    \/ cache_lock(t)
    \/ load_responses_lookup(t)
    \/ load_responses_probe(t)
    \/ load_file_read(t)
    \/ load_file_insert(t)

\* the runtime goes on polling every task that can run, and file reads
\* complete
SpecCacheFair ==
    SpecCache /\ \A t \in Tasks : WF_vars(task_step(t))

----------------------------------------------------------------------------
(* The public functions of validations.rs and providers/mod.rs, called on    *)
(* their own: `call` records the function, its arguments and its result.     *)

\* the longest messages list of a request handed to the validator
MaxMessages ==
    2

\* a message with each combination of content, tool_calls and tool_call_id
CallMessages ==
    {[role |-> "user", content |-> content, tool_calls |-> tool_calls,
      tool_call_id |-> tool_call_id] :
        content \in {None, Some(<<"h", "i">>)},
        tool_calls \in {None, Some(<<"get_weather">>)},
        tool_call_id \in {None, Some("call_1")}}

\* the requests handed to the validator
CallRequests ==
    {[BaseRequest(messages, None, None, None) EXCEPT !.temperature = temperature] :
        messages \in UNION {[1..n -> CallMessages] : n \in 0..MaxMessages},
        temperature \in {None, Some(21)}}

CallModels ==
    {<<"gpt-4">>, <<"mock-", "demo">>, <<"llama">>}

CallAllowLists ==
    {None} \cup {Some(allowed) : allowed \in SUBSET CallModels}

\* the neutral responses an adapter may hand to standard_completion_response:
\* provider_data absent, an empty map, a map with entries
CallInferenceResponses ==
    {[text |-> <<"a">>, model_used |-> <<"gpt-4">>,
      total_tokens |-> tokens, prompt_tokens |-> None,
      completion_tokens |-> None, finish_reason |-> Some("stop"),
      provider_request_id |-> provider_request_id, tool_calls |-> None,
      provider_data |-> provider_data] :
        tokens \in {None, Some(5)},
        provider_request_id \in {None, Some(<<"chatcmpl-", "x">>)},
        provider_data \in {None, Some(<<>>),
                           Some([scenario |-> <<"demo">>, mode |-> "first"])}}

CallResponseModes ==
    {None, Some("standard"), Some("extended")}

\* the original requests handed to standard_completion_response
CallOriginalRequests ==
    {[BaseRequest(<<UserMessage>>, None, None, None)
         EXCEPT !.response_mode = response_mode] :
        response_mode \in CallResponseModes}

\* the values tried for each bounded numeric field: both ends of its range
\* and the nearest values outside (f32 and f64 fields in tenths)
NumericValues ==
    [max_tokens |-> {0, 1, 128000, 128001},
     temperature |-> {-1, 0, 20, 21},
     top_p |-> {-1, 0, 10, 11},
     frequency_penalty |-> {-21, -20, 20, 21},
     presence_penalty |-> {-21, -20, 20, 21},
     top_logprobs |-> {0, 20, 21},
     n |-> {0, 1, 10, 11},
     logit_bias |->
         {<<[numeric_id |-> TRUE, bias |-> Some(b)]>> :
             b \in {-1001, -1000, 1000, 1001}}
           \cup {<<[numeric_id |-> FALSE, bias |-> Some(0)]>>,
                 <<[numeric_id |-> TRUE, bias |-> None]>>}]

\* (field, value) for every value tried
NumericSettings ==
    UNION {{<<f, v>> : v \in NumericValues[f]} : f \in DOMAIN NumericValues}

\* well-formed requests that set one or two of the numeric fields
CallNumericRequests ==
    {[BaseRequest(<<UserMessage>>, None, None, None)
         EXCEPT ![p[1][1]] = Some(p[1][2]), ![p[2][1]] = Some(p[2][2])] :
        p \in {q \in NumericSettings \X NumericSettings :
                  q[1][1] # q[2][1] \/ q[1] = q[2]}}

\* the statuses a RequestFailed may carry (u16): around the ends of the
\* status codes, and the ones the taxonomy names
CallStatuses ==
    {0, 99, 100, 200, 401, 403, 404, 429, 500, 503, 999, 1000, 65535}

CallProviderErrors ==
    {ProviderError(type) :
        type \in {"ConnectionFailed", "InvalidResponse", "Timeout",
                  "Configuration", "StreamingNotSupported"}}
      \cup {StreamError(<<"x">>), InvalidExtension("top_k"),
            ModelNotAvailable(<<"gpt-4">>, <<>>),
            ModelNotAvailable(<<"gpt-4">>, <<<<"llama">>>>)}
      \cup {RequestFailed(status) : status \in CallStatuses}

\* the fields an upstream completion body may have
CallBodyFields(model, choices) ==
    [id |-> <<"chatcmpl-", "x">>, object |-> "chat.completion",
     model |-> model, choices |-> choices,
     usage |-> [prompt_tokens |-> 2, completion_tokens |-> 3,
                total_tokens |-> 5],
     timings |-> [predicted_ms |-> 7], slot_id |-> 1]

\* upstream bodies handed to parse_response_body: with and without the
\* optional and the backend-only fields, with and without `object`
CallUpstreamBodies ==
    {JsonObject({"id", "model", "choices"} \cup optional,
                CallBodyFields(model, choices)) :
        optional \in SUBSET {"object", "usage", "timings", "slot_id"},
        model \in {<<"gpt-4">>, <<"other">>},
        choices \in {<<>>,
                     <<[index |-> 0, message |-> UpstreamMessage,
                        finish_reason |-> "stop"]>>,
                     <<[index |-> 0, message |-> [role |-> "assistant"]]>>}}

\* the requests handed to the capability check: stream absent, false, true
CallStreamRequests ==
    {BaseRequest(<<UserMessage>>, None, stream, None) :
        stream \in {None, Some(FALSE), Some(TRUE)}}

\* the adapters behind state.provider: the three of the repository, and one
\* that keeps the defaults of the InferenceProvider trait
CallProviders ==
    {"mock", "lmstudio", "openai", "trait_default"}

callOtherVars ==
    <<handlerVars, pj, mc, boot>>

call_validate_completion_request(req) ==
    /\ call' = Some([op |-> "validate_completion_request", request |-> req,
                     result |-> validate_completion_request(req)])
    /\ UNCHANGED callOtherVars

call_validate_model_allowed(requested_model, allowed) ==
    /\ call' = Some([op |-> "validate_model_allowed",
                     requested_model |-> requested_model, allowed |-> allowed,
                     result |-> validate_model_allowed(requested_model, allowed)])
    /\ UNCHANGED callOtherVars

call_determine_model(requested_model, default, allowed) ==
    /\ call' = Some([op |-> "determine_model",
                     requested_model |-> requested_model, default |-> default,
                     allowed |-> allowed,
                     result |-> determine_model(requested_model, default, allowed)])
    /\ UNCHANGED callOtherVars

call_standard_completion_response(resp, original_request, provider_name, uuid) ==
    /\ call' = Some([op |-> "standard_completion_response", response |-> resp,
                     original_request |-> original_request,
                     result |-> standard_completion_response(
                                    resp, original_request, provider_name, uuid)])
    /\ UNCHANGED callOtherVars

call_into_response(e) ==
    /\ call' = Some([op |-> "into_response", error |-> e,
                     result |-> into_response(e)])
    /\ UNCHANGED callOtherVars

call_parse_response_body(json, requested_model) ==
    /\ call' = Some([op |-> "parse_response_body", response |-> json,
                     requested_model |-> requested_model,
                     result |-> lmstudio_parse_response_body(json, requested_model)])
    /\ UNCHANGED callOtherVars

call_validate_provider_capabilities(req, can_stream) ==
    /\ call' = Some([op |-> "validate_provider_capabilities", request |-> req,
                     supports_streaming |-> can_stream,
                     result |-> validate_provider_capabilities(req, can_stream)])
    /\ UNCHANGED callOtherVars

\* the stages of the handler on the adapter p, and the adapter method that
\* the handler calls after them
call_pipeline(req, p) ==
    /\ LET pre == pipeline(req, p, <<"mock-", "demo">>, None)
       IN  call' = Some([op |-> "pipeline", request |-> req, provider |-> p,
                         result |-> pre.result,
                         adapter_calls |-> IF pre.result.ok
                                           THEN <<adapter_method(req)>>
                                           ELSE <<>>])
    /\ UNCHANGED callOtherVars

\* the configured backoff and the attempts of the retry loop explored: the
\* first ones, and two that max_retries: u32 allows far beyond them
CallBackoffs ==
    {0, 100, default_retry_backoff_ms}

CallAttempts ==
    {1, 2, 3, 4, 58, 65}

call_retry_delay(backoff_ms, attempt, overflow_checks) ==
    /\ call' = Some([op |-> "retry_delay", backoff_ms |-> backoff_ms,
                     attempt |-> attempt,
                     result |-> retry_delay(backoff_ms, attempt,
                                            overflow_checks)])
    /\ UNCHANGED callOtherVars

\* the serde_json values tried as extension values: integers, numbers with a
\* fraction (in tenths), a string (v its length), a boolean (v = 1 for true)
CallExtensionValues ==
    {[t |-> "int", v |-> v] : v \in {-1, 0, 1, 2, 3}}
      \cup {[t |-> "float", v |-> v] : v \in {-1, 5, 11}}
      \cup {[t |-> "string", v |-> 3], [t |-> "bool", v |-> 1]}

CallExtensionKeys ==
    LM_STUDIO_EXTENSIONS \cup {"bogus"}

\* the extension maps handed to the validators, each with an order in which
\* the HashMap yields its keys: the empty map, every key with every value,
\* and maps of two keys
CallExtensions ==
    LET one == {[k \in {key} |-> value] :
                   key \in CallExtensionKeys, value \in CallExtensionValues}
        two == {[k \in {"top_k", other} |->
                    IF k = "top_k" THEN [t |-> "int", v |-> v]
                    ELSE [t |-> "int", v |-> 1]] :
                   other \in {"min_tokens", "min_p", "grammar", "bogus"},
                   v \in {0, 1}}
    IN  UNION {{<<Some(extensions), order>> :
                   order \in KeyOrders(Some(extensions))} :
                  extensions \in {<<>>} \cup one \cup two}

\* the maps handed to the default policy: the keys matter, not the values
CallDefaultExtensions ==
    {c \in CallExtensions :
        \A k \in DOMAIN c[1][1] : c[1][1][k] = [t |-> "int", v |-> 1]}

\* what supported_extensions() may return: the default's empty list (openai,
\* mock), and a list of names
CallSupported ==
    {supported_extensions(p) : p \in CallProviders}

call_default_validate_extensions(supported, c) ==
    /\ call' = Some([op |-> "default_validate_extensions",
                     supported |-> supported, extensions |-> c[1][1],
                     result |-> default_validate_extensions(supported, c[1][1],
                                                            c[2])])
    /\ UNCHANGED callOtherVars

call_validate_lm_studio_extensions(c) ==
    /\ call' = Some([op |-> "validate_lm_studio_extensions",
                     extensions |-> c[1][1],
                     result |-> validate_lm_studio_extensions(c[1][1], c[2])])
    /\ UNCHANGED callOtherVars

CallsInit ==
    /\ provider = "mock"
    /\ default_model = <<"mock-", "demo">>
    /\ allowed_models = None
    /\ files = <<>>
    /\ response_cache = <<>>
    /\ pc = "idle"
    /\ request = None
    /\ stages = <<>>
    /\ adapter_calls = <<>>
    /\ upstream_posts = 0
    /\ fixture_reads = 0
    /\ upstream_reply = None
    /\ response = None
    /\ provider_stream = None
    /\ adapter_items = <<>>
    /\ sse = <<>>
    /\ pj = None
    /\ mc = None
    /\ call = None
    /\ boot = None

\* one call per behaviour: the functions keep nothing between calls
CallsNext ==
    \/ /\ IsNone(call)
       /\ \E req \in CallRequests \cup CallNumericRequests :
                 call_validate_completion_request(req)
    \/ /\ IsNone(call)
       /\ \E requested_model \in CallModels, allowed \in CallAllowLists :
                 call_validate_model_allowed(requested_model, allowed)
    \/ /\ IsNone(call)
       /\ \E requested_model \in {None} \cup {Some(m) : m \in CallModels},
                 default \in CallModels, allowed \in CallAllowLists :
                 call_determine_model(requested_model, default, allowed)
    \/ /\ IsNone(call)
       /\ \E resp \in CallInferenceResponses,
                 original_request \in CallOriginalRequests,
                 provider_name \in {"mock", "lmstudio"}, uuid \in UUIDs :
                 call_standard_completion_response(resp, original_request,
                                                   provider_name, uuid)
    \/ /\ IsNone(call)
       /\ \E e \in CallProviderErrors : call_into_response(e)
    \/ /\ IsNone(call)
       /\ \E json \in CallUpstreamBodies, requested_model \in {<<"gpt-4">>} :
                 call_parse_response_body(json, requested_model)
    \/ /\ IsNone(call)
       /\ \E req \in CallStreamRequests, can_stream \in BOOLEAN :
                 call_validate_provider_capabilities(req, can_stream)
    \/ /\ IsNone(call)
       /\ \E req \in CallStreamRequests, p \in CallProviders :
                 call_pipeline(req, p)
    \/ /\ IsNone(call)
       /\ \E backoff_ms \in CallBackoffs, attempt \in CallAttempts,
                 overflow_checks \in BOOLEAN :
                 call_retry_delay(backoff_ms, attempt, overflow_checks)
    \/ /\ IsNone(call)
       /\ \E supported \in CallSupported, c \in CallDefaultExtensions :
                 call_default_validate_extensions(supported, c)
    \/ /\ IsNone(call)
       /\ \E c \in CallExtensions : call_validate_lm_studio_extensions(c)

SpecCalls ==
    CallsInit /\ [][CallsNext]_vars

----------------------------------------------------------------------------
(* main.rs: startup, from create_provider to axum::serve *)

\* the Triton variant of config::InferenceProvider, next to the deployments
\* that have an adapter
TritonDeployments ==
    {<<"triton", <<"gpt-4">>, a, <<>>>> : a \in {None, Some({<<"gpt-4">>})}}

\* main before create_provider: no adapter, no listener
Booting ==
    [at |-> "create_provider", adapter |-> None, listening |-> FALSE]

\* fault: the Triton arm hands out an adapter
create_provider_with_triton_adapter(variant, constructed) ==
    IF constructed THEN Ok(variant)
    ELSE Err("Configuration")

\* `constructed` is whether the adapter's `new` succeeds (the responses
\* directory exists, the HTTP client builds, the API key is a header value)
create_provider(variant, constructed) ==
    CASE variant = "triton" -> Err("Triton provider not yet implemented")
      [] OTHER -> IF constructed THEN Ok(variant)
                  ELSE Err("Configuration")

\* create_provider(&settings).expect(..): an Err panics, which ends main
main_create_provider(constructed) ==
    /\ IsSome(boot)
    /\ boot[1].at = "create_provider"
    /\ LET created == create_provider(provider, constructed)
       IN  boot' = IF created.ok
                   THEN Some([boot[1] EXCEPT !.at = "bind",
                                             !.adapter = Some(created.val)])
                   ELSE Some([boot[1] EXCEPT !.at = "panicked"])
    /\ UNCHANGED <<handlerVars, pj, mc, call>>

\* TcpListener::bind(&addr).await.unwrap(), then axum::serve
main_bind(bound) ==
    /\ IsSome(boot)
    /\ boot[1].at = "bind"
    /\ IF bound
       THEN /\ boot' = Some([boot[1] EXCEPT !.at = "serve", !.listening = TRUE])
            /\ pc' = "idle"
       ELSE /\ boot' = Some([boot[1] EXCEPT !.at = "panicked"])
            /\ pc' = pc
    /\ UNCHANGED <<provider, default_model, allowed_models, files,
                   response_cache, request, stages, adapter_calls,
                   upstream_posts, fixture_reads, upstream_reply, response,
                   provider_stream, adapter_items, sse, pj, mc, call>>

\* what the upstream answers to GET /v1/models
ModelsReplies ==
    {[transport |-> Some(e), status |-> 0, body |-> Literal("")] :
        e \in TransportErrors}
      \cup {[transport |-> None, status |-> st, body |-> b] :
              st \in {200, 401, 503},
              b \in {Literal("<html>"),
                     [json |-> [data |-> <<[id |-> <<"gpt-4">>],
                                           [id |-> <<"whisper">>]>>]]}}

\* id.contains("gpt") || id.contains("turbo") || id.contains("davinci"), on
\* the ids the upstream lists
is_chat_model(id) ==
    id \in {<<"gpt-4">>}

\* the adapters' list_models; a Vec of names is the sequence of its elements,
\* the mock's sorted Vec the set of the file stems
dyn_list_models(p, dir, reply) ==
    IF p = "mock" THEN Ok({<<"mock-">> \o stem : stem \in DOMAIN dir})
    ELSE IF IsSome(reply.transport) THEN Err(ProviderError("ConnectionFailed"))
    ELSE IF ~is_success(reply.status) THEN Err(RequestFailed(reply.status))
    ELSE IF ~response_json(reply.body).ok THEN Err(ProviderError("InvalidResponse"))
    ELSE LET data == reply.body.json.data
             ids == [i \in DOMAIN data |-> data[i].id]
         IN  Ok({ids[i] : i \in {j \in DOMAIN ids :
                                    p = "openai" => is_chat_model(ids[j])}})

\* the adapters' health_check; `dir_exists` is responses_dir().exists()
dyn_health_check(p, dir_exists, reply) ==
    IF p = "mock"
    THEN IF dir_exists THEN Ok("healthy") ELSE Err(ProviderError("Configuration"))
    ELSE IF IsSome(reply.transport) THEN Err(map_reqwest_error(reply.transport[1]))
    ELSE IF is_success(reply.status) THEN Ok("healthy")
    ELSE IF p = "openai" /\ reply.status = 401
        THEN Err(ProviderError("Configuration"))
    ELSE Err(RequestFailed(reply.status))

\* GET /v1/models
list_models(reply) ==
    /\ pc = "idle"
    /\ LET models == dyn_list_models(provider, files, reply)
       IN  response' =
               IF models.ok
               THEN Some(Ok([kind |-> "Models",
                             body |-> [object |-> "list",
                                       data |-> {[id |-> id, object |-> "model",
                                                  owned_by |-> "local"] :
                                                    id \in models.val}]]))
               ELSE Some(Err(ApiError("Provider", models.err)))
    /\ adapter_calls' = <<"list_models">>
    /\ upstream_reply' = IF provider = "mock" THEN None ELSE Some(reply)
    /\ pc' = "done"
    /\ UNCHANGED <<provider, default_model, allowed_models, files,
                   response_cache, request, stages, upstream_posts,
                   fixture_reads, provider_stream, adapter_items, sse,
                   pj, mc, call, boot>>

\* GET /health; the deployments have no [inference.http] section, so the HTTP
\* adapters' http_config() is None like the mock's
health_check(dir_exists, reply) ==
    /\ pc = "idle"
    /\ LET healthy == dyn_health_check(provider, dir_exists, reply)
       IN  response' =
               IF healthy.ok
               THEN Some(Ok([kind |-> "Health",
                             body |-> [status |-> "healthy",
                                       provider |-> provider,
                                       http_config |-> None]]))
               ELSE Some(Err(ApiError("Provider", healthy.err)))
    /\ adapter_calls' = <<"health_check">>
    /\ upstream_reply' = IF provider = "mock" THEN None ELSE Some(reply)
    /\ pc' = "done"
    /\ UNCHANGED <<provider, default_model, allowed_models, files,
                   response_cache, request, stages, upstream_posts,
                   fixture_reads, provider_stream, adapter_items, sse,
                   pj, mc, call, boot>>

MainInit ==
    /\ \E d \in Deployments \cup TritonDeployments :
          /\ provider = d[1]
          /\ default_model = d[2]
          /\ allowed_models = d[3]
          /\ files = d[4]
    /\ response_cache = <<>>
    /\ pc = "down"
    /\ request = None
    /\ stages = <<>>
    /\ adapter_calls = <<>>
    /\ upstream_posts = 0
    /\ fixture_reads = 0
    /\ upstream_reply = None
    /\ response = None
    /\ provider_stream = None
    /\ adapter_items = <<>>
    /\ sse = <<>>
    /\ pj = None
    /\ mc = None
    /\ call = None
    /\ boot = Some(Booting)

MainNext ==
    \/ \E constructed \in BOOLEAN : main_create_provider(constructed)
    \/ \E bound \in BOOLEAN : main_bind(bound)
    \/ /\ pc = "idle"
       /\ \E reply \in ModelsReplies : list_models(reply)
    \/ /\ pc = "idle"
       /\ \E dir_exists \in BOOLEAN, reply \in ModelsReplies :
             health_check(dir_exists, reply)
    \/ Next

SpecMain ==
    MainInit /\ [][MainNext]_vars

----------------------------------------------------------------------------
(* Vocabulary of the properties *)

\* the handler answered the request in flight with an SSE body
Streamed ==
    IsSome(response) /\ response[1].ok /\ response[1].val.kind = "Stream"

\* the handler answered the request in flight with a JSON completion
Completed ==
    IsSome(response) /\ response[1].ok /\ response[1].val.kind = "Json"

\* the handler answered the request in flight with the error `type`
Rejected(type) ==
    IsSome(response) /\ ~response[1].ok /\ response[1].err.error.type = type

IsDone(ev) ==
    "text" \in DOMAIN ev.data /\ ev.data.text = "[DONE]"

IsErrorEvent(ev) ==
    "json" \in DOMAIN ev.data /\ "error" \in DOMAIN ev.data.json

\* the event carries a chunk, decoded here
IsChunkEvent(ev) ==
    "json" \in DOMAIN ev.data /\ DeserializeStreamChunk(ev.data.json).ok

DecodedChunk(ev) ==
    DeserializeStreamChunk(ev.data.json).val

IsRoleChunk(chunk) ==
    /\ chunk.choices # <<>>
    /\ chunk.choices[1].delta.role = Some("assistant")
    /\ IsNone(chunk.choices[1].delta.content)

IsContentChunk(chunk, content) ==
    /\ chunk.choices # <<>>
    /\ chunk.choices[1].delta.content = Some(content)
    /\ IsNone(chunk.choices[1].finish_reason)

HasFinishReason(chunk) ==
    chunk.choices # <<>> /\ IsSome(chunk.choices[1].finish_reason)

\* the fixture file that serves the mock request in flight
ServingFixture ==
    LET model == IF IsSome(request[1].model) THEN request[1].model[1]
                 ELSE default_model
    IN  IF Tail(model) \in DOMAIN response_cache
        THEN response_cache[Tail(model)]
        ELSE response_cache[<<"default">>]

----------------------------------------------------------------------------
(* Properties of the streaming path *)

\* C1: in the SSE output of a stream the adapter returned, [DONE] occurs only
\* as the last event of the finished body, after every event derived from the
\* adapter's sequence, and a finished body has it exactly once.
DoneExactlyOnceAndLast ==
    /\ \A i \in 1..Len(sse) :
          IsDone(sse[i]) =>
              /\ i = Len(sse)
              /\ pc = "done"
              /\ i = Len(adapter_items) + 1
    /\ (Streamed /\ pc = "done") =>
          /\ sse # <<>>
          /\ IsDone(sse[Len(sse)])
          /\ Cardinality({i \in 1..Len(sse) : IsDone(sse[i])}) = 1

\* a finished stream of an HTTP adapter with two forwarded items
DoneAfterTwoItems ==
    /\ Streamed
    /\ pc = "done"
    /\ provider # "mock"
    /\ Len(adapter_items) = 2
    /\ IsDone(sse[3])

\* C2: the i-th SSE data event is derived from the i-th item of the adapter's
\* sequence (a chunk event decodes back to the chunk, an error item gives an
\* error event), and there is no other data event.
EventsFollowAdapterOrder ==
    /\ Len(sse) = Len(adapter_items)
                    + (IF Streamed /\ pc = "done" THEN 1 ELSE 0)
    /\ \A i \in 1..Len(adapter_items) :
          IF adapter_items[i].ok
          THEN /\ IsChunkEvent(sse[i])
               /\ DecodedChunk(sse[i]) = adapter_items[i].val
          ELSE IsErrorEvent(sse[i])

\* a finished mock stream of three distinct chunks
ThreeMockChunksForwarded ==
    /\ Streamed
    /\ pc = "done"
    /\ provider = "mock"
    /\ Len(adapter_items) = 3
    /\ IsRoleChunk(DecodedChunk(sse[1]))
    /\ IsContentChunk(DecodedChunk(sse[2]), <<"b", " ">>)
    /\ HasFinishReason(DecodedChunk(sse[3]))

\* C3: an error item of the adapter's sequence gives exactly one in-band error
\* event, of type stream_error, at its place; it does not end the stream:
\* the body stays open after it, and a finished body has forwarded every item
\* and ends with [DONE].
ErrorItemsAreInBand ==
    /\ \A i \in 1..Len(adapter_items) :
          ~adapter_items[i].ok <=>
              (i <= Len(sse) /\ IsErrorEvent(sse[i])
                 /\ sse[i].data.json.error.type = "stream_error")
    /\ Cardinality({i \in 1..Len(sse) : IsErrorEvent(sse[i])})
          = Cardinality({i \in 1..Len(adapter_items) : ~adapter_items[i].ok})
    /\ (Streamed /\ pc = "done") =>
          /\ Len(sse) = Len(adapter_items) + 1
          /\ IsDone(sse[Len(sse)])
    /\ (Streamed /\ pc = "streaming") => IsSome(provider_stream)

\* a malformed upstream chunk, then a chunk, then [DONE]
ChunkForwardedAfterError ==
    /\ Streamed
    /\ pc = "done"
    /\ Len(adapter_items) = 2
    /\ ~adapter_items[1].ok
    /\ adapter_items[1].err.msg = "Invalid stream chunk"
    /\ adapter_items[2].ok
    /\ IsErrorEvent(sse[1])
    /\ IsChunkEvent(sse[2])
    /\ IsDone(sse[3])

\* C4: the first SSE event of a stream of the mock adapter decodes to a chunk
\* whose first choice has delta.role = assistant and no content, whatever the
\* fixture text.
MockFirstEventIsRoleChunk ==
    (Streamed /\ pc = "done" /\ provider = "mock") =>
        /\ IsChunkEvent(sse[1])
        /\ IsRoleChunk(DecodedChunk(sse[1]))

\* C5: in a stream of the mock adapter exactly one chunk event carries a
\* finish_reason, and it is the last chunk event before [DONE]; while the body
\* is open, no chunk event but the last one written carries one.
MockFinishReasonOnlyOnLastChunk ==
    (Streamed /\ provider = "mock") =>
        LET finished == {i \in 1..Len(sse) :
                            IsChunkEvent(sse[i])
                              /\ HasFinishReason(DecodedChunk(sse[i]))}
        IN  /\ pc = "done" =>
                  /\ Len(sse) >= 2
                  /\ finished = {Len(sse) - 1}
                  /\ IsDone(sse[Len(sse)])
            /\ pc = "streaming" =>
                  /\ finished \subseteq {Len(sse)}
                  /\ finished # {} => provider_stream[1].rest = <<>>

\* a finished mock stream with chunks before the final one
MockStreamFinishedWithLength ==
    /\ Streamed
    /\ pc = "done"
    /\ provider = "mock"
    /\ Len(sse) = 4
    /\ DecodedChunk(sse[3]).choices[1].finish_reason = Some("length")
    /\ IsNone(DecodedChunk(sse[2]).choices[1].finish_reason)

\* C6: a fixture text of k words w1..wk gives exactly k+2 chunks: the role
\* chunk, the content chunks "w1 ", ..., "wk " in order, the final chunk.
MockStreamHasRolePlusEveryWord ==
    (Streamed /\ pc = "done" /\ provider = "mock") =>
        \E r \in 1..Len(ServingFixture.responses) :
            LET words == split_whitespace(ServingFixture.responses[r].text)
                k == Len(words)
            IN  /\ Len(adapter_items) = k + 2
                /\ \A i \in 1..(k + 2) : adapter_items[i].ok
                /\ IsRoleChunk(adapter_items[1].val)
                /\ \A i \in 1..k :
                      IsContentChunk(adapter_items[i + 1].val,
                                     words[i] \o <<" ">>)
                /\ HasFinishReason(adapter_items[k + 2].val)

----------------------------------------------------------------------------
(* Properties of the unary path and of the pipeline *)

UnsupportedKeys ==
    IF IsSome(request) /\ IsSome(request[1].extensions)
    THEN DOMAIN request[1].extensions[1] \ supported_extensions(provider)
    ELSE {}

\* C8: a request that passed the pipeline and carries an extension key the
\* adapter does not support is rejected with InvalidExtension, without any
\* upstream POST or fixture read, and is never answered.
UnsupportedExtensionIsRejected ==
    (pc # "idle" /\ adapter_calls # <<>> /\ UnsupportedKeys # {}) =>
        /\ Rejected("InvalidExtension")
        /\ upstream_posts = 0
        /\ fixture_reads = 0

\* C9: the adapter is invoked at most once, stream iff req.stream = Some(true)
\* and generate otherwise, and only after validate_request, the model
\* resolution, the allow-list check and the capability gate have succeeded in
\* that order; when a stage fails, the run stops there with that stage's error
\* and without any adapter operation or I/O.
AdapterOnlyAfterPipeline ==
    pc # "idle" =>
        LET req == request[1]
            valid == validate_completion_request(req)
            model == determine_model(req.model, default_model, allowed_models)
            allow == validate_model_allowed(model.val, allowed_models)
            capable == validate_provider_capabilities(
                           req, supports_streaming(provider))
            all == <<"validate_request", "determine_model",
                     "validate_model_allowed", "validate_provider_capabilities">>
            failed(n, res) ==
                /\ stages = SubSeq(all, 1, n)
                /\ adapter_calls = <<>>
                /\ upstream_posts = 0
                /\ fixture_reads = 0
                /\ pc = "done"
                /\ ~response[1].ok
                /\ response[1].err = ApiError("Validation", res.err)
        IN  /\ Len(adapter_calls) <= 1
            /\ IF ~valid.ok THEN failed(1, valid)
               ELSE IF ~model.ok THEN failed(2, model)
               ELSE IF ~allow.ok THEN failed(3, allow)
               ELSE IF ~capable.ok THEN failed(4, capable)
               ELSE /\ stages = all
                    /\ adapter_calls =
                          <<IF req.stream = Some(TRUE) THEN "stream"
                            ELSE "generate">>

\* a streaming request stopped at the allow-list check: the default model it
\* falls back to is not in the allow list
StoppedAtAllowList ==
    /\ pc = "done"
    /\ IsNone(request[1].model)
    /\ Len(stages) = 3
    /\ Rejected("ModelNotInAllowedList")
    /\ request[1].stream = Some(TRUE)
    /\ adapter_calls = <<>>

----------------------------------------------------------------------------
(* Properties of post_json *)

Is503(reply) ==
    IsNone(reply.transport) /\ reply.status = 503

Is200Json(reply) ==
    IsNone(reply.transport) /\ reply.status = 200 /\ "json" \in DOMAIN reply.body

\* C10: against an upstream that answers N consecutive 503s and then a 200
\* with a JSON body, post_json returns success iff N <= max_retries: it keeps
\* going through the first max_retries 503s, returns the body if the 200 comes
\* within max_retries + 1 attempts, and returns an error at the
\* (max_retries + 1)-th 503.
RetryUntil200 ==
    IsSome(pj) =>
        LET loop == pj[1]
            n == Len(loop.replies)
            only503(k) == \A i \in 1..k : Is503(loop.replies[i])
        IN  /\ (n >= 1 /\ only503(n - 1) /\ Is200Json(loop.replies[n])) =>
                  /\ n - 1 <= loop.max_retries
                  /\ IsSome(loop.result)
                  /\ loop.result[1].ok
            /\ (only503(n) /\ n <= loop.max_retries) => IsNone(loop.result)
            /\ (only503(n) /\ n = loop.max_retries + 1) =>
                  /\ IsSome(loop.result)
                  /\ ~loop.result[1].ok

\* the 200 arrives on the last attempt allowed, after max_retries 503s
SucceededOnLastAttempt ==
    /\ IsSome(pj)
    /\ pj[1].max_retries >= 2
    /\ Len(pj[1].replies) = pj[1].max_retries + 1
    /\ \A i \in 1..pj[1].max_retries : Is503(pj[1].replies[i])
    /\ Is200Json(pj[1].replies[Len(pj[1].replies)])
    /\ IsSome(pj[1].result)
    /\ pj[1].result[1].ok
    /\ Len(pj[1].delays) = pj[1].max_retries

\* C11: post_json starts a further attempt only after a transport timeout, a
\* connection failure or a 5xx status; a 4xx status, another transport error
\* or a 2xx with an invalid JSON body ends the call with that error.
RetryOnlyAfterTimeoutConnectOr5xx ==
    IsSome(pj) =>
        LET loop == pj[1]
            n == Len(loop.replies)
            retryable(reply) ==
                IF IsSome(reply.transport)
                THEN reply.transport[1] \in {"timeout", "connect"}
                ELSE 500 <= reply.status /\ reply.status <= 599
        IN  /\ \A i \in 1..(n - 1) : retryable(loop.replies[i])
            /\ (n >= 1 /\ ~retryable(loop.replies[n])
                  /\ ~Is200Json(loop.replies[n])) =>
                  /\ IsSome(loop.result)
                  /\ ~loop.result[1].ok

----------------------------------------------------------------------------
(* Properties of the HTTP adapters' use of the upstream *)

\* the upstream answered the POST with a failure post_json would retry
FirstPostFailedRetryably ==
    /\ IsSome(upstream_reply)
    /\ IF IsSome(upstream_reply[1].transport)
       THEN upstream_reply[1].transport[1] \in {"timeout", "connect"}
       ELSE 500 <= upstream_reply[1].status /\ upstream_reply[1].status <= 599

\* C12: a unary request on an HTTP adapter whose first POST ends in a 5xx, a
\* timeout or a connection failure is sent again when max_retries >= 1.
UnaryRequestIsRetried ==
    (/\ pc = "done"
     /\ provider \in {"lmstudio", "openai"}
     /\ adapter_calls = <<"generate">>
     /\ FirstPostFailedRetryably
     /\ default_max_retries >= 1) =>
        upstream_posts >= 2

----------------------------------------------------------------------------
(* Properties of the mock's fixture cache *)

\* C14: once the cache holds an entry for a key, the entry is never removed
\* and its value never changes, whatever the requests and the changes on disk.
CacheEntriesNeverChange ==
    [][\A k \in DOMAIN response_cache :
          /\ k \in DOMAIN response_cache'
          /\ response_cache'[k] = response_cache[k]]_vars

\* C15: a fixture file is read and parsed at most once per process, under any
\* interleaving of the requests.
FixtureParsedAtMostOnce ==
    IsSome(mc) => \A path \in CachePaths : mc[1].parses[path] <= 1

----------------------------------------------------------------------------
(* Properties of the mock's response selection *)

\* the model the mock adapter serves the request in flight with
ServedModel ==
    IF IsSome(request[1].model) THEN request[1].model[1] ELSE default_model

----------------------------------------------------------------------------
(* Properties of the response assembly and of the validators *)

Called(op) ==
    IsSome(call) /\ call[1].op = op

\* C17: standard_completion_response sets provider_extensions exactly when the
\* request's response_mode is extended and provider_data is present and not
\* empty; a present, empty provider_data gives no provider_extensions.
ProviderExtensionsIffExtendedAndNonEmpty ==
    Called("standard_completion_response") =>
        (IsSome(call[1].result.provider_extensions)
           <=> /\ call[1].original_request.response_mode = Some("extended")
               /\ IsSome(call[1].response.provider_data)
               /\ DOMAIN call[1].response.provider_data[1] # {})

\* C18: determine_model gives the requested model when there is one and it
\* passes, the default model when there is none; a requested model passes
\* exactly when no allow-list is configured or the list holds it, and fails
\* with ModelNotInAllowedList carrying the model and the allowed models.
ModelResolvedAgainstAllowList ==
    /\ Called("validate_model_allowed") =>
          LET m == call[1].requested_model
              allowed == call[1].allowed
          IN  /\ call[1].result.ok <=> (IsNone(allowed) \/ m \in allowed[1])
              /\ ~call[1].result.ok =>
                    /\ call[1].result.err.type = "ModelNotInAllowedList"
                    /\ call[1].result.err.model = m
                    /\ call[1].result.err.allowed = allowed[1]
    /\ Called("determine_model") =>
          LET requested == call[1].requested_model
              allowed == call[1].allowed
          IN  IF IsNone(requested)
              THEN call[1].result.ok /\ call[1].result.val = call[1].default
              ELSE /\ call[1].result.ok
                        <=> (IsNone(allowed) \/ requested[1] \in allowed[1])
                   /\ call[1].result.ok => call[1].result.val = requested[1]
                   /\ ~call[1].result.ok =>
                         /\ call[1].result.err.type = "ModelNotInAllowedList"
                         /\ call[1].result.err.model = requested[1]
                         /\ call[1].result.err.allowed = allowed[1]

\* a requested model outside an empty allow-list is refused
RefusedByEmptyAllowList ==
    /\ Called("determine_model")
    /\ call[1].requested_model = Some(<<"llama">>)
    /\ call[1].allowed = Some({})
    /\ ~call[1].result.ok
    /\ call[1].result.err.model = <<"llama">>

\* C19: a request holding a message with neither content nor tool_calls nor
\* tool_call_id is rejected by the validator, whatever its other messages.
EveryMessageNeedsContent ==
    Called("validate_completion_request") =>
        ((\E i \in 1..Len(call[1].request.messages) :
              LET msg == call[1].request.messages[i]
              IN  /\ IsNone(msg.content)
                  /\ IsNone(msg.tool_calls)
                  /\ IsNone(msg.tool_call_id))
           => ~call[1].result.ok)

\* C20: the validator fails with EmptyMessages exactly when messages is
\* empty, and with NoContent exactly when messages is not empty and no
\* message has content, tool_calls or tool_call_id.
EmptyMessagesAndNoContentExactly ==
    Called("validate_completion_request") =>
        LET messages == call[1].request.messages
            result == call[1].result
        IN  /\ (~result.ok /\ result.err.type = "EmptyMessages")
                 <=> messages = <<>>
            /\ (~result.ok /\ result.err.type = "NoContent")
                 <=> /\ messages # <<>>
                     /\ \A i \in 1..Len(messages) :
                           /\ IsNone(messages[i].content)
                           /\ IsNone(messages[i].tool_calls)
                           /\ IsNone(messages[i].tool_call_id)

\* a request whose only message has tool_calls and no content is accepted
ToolCallsAloneAccepted ==
    /\ Called("validate_completion_request")
    /\ Len(call[1].request.messages) = 1
    /\ IsNone(call[1].request.messages[1].content)
    /\ IsSome(call[1].request.messages[1].tool_calls)
    /\ IsNone(call[1].request.messages[1].tool_call_id)
    /\ call[1].result.ok

----------------------------------------------------------------------------
(* Properties of the numeric ranges *)

\* the order in which the validator tests the numeric fields
NumericFields ==
    <<"max_tokens", "temperature", "top_p", "frequency_penalty",
      "presence_penalty", "top_logprobs", "n", "logit_bias">>

\* the range of each field (f32 and f64 fields in tenths) and its error
NumericContract ==
    [max_tokens |-> [lo |-> 1, hi |-> 128000, error |-> "InvalidMaxTokens"],
     temperature |-> [lo |-> 0, hi |-> 20, error |-> "InvalidTemperature"],
     top_p |-> [lo |-> 0, hi |-> 10, error |-> "InvalidTopP"],
     frequency_penalty |->
         [lo |-> -20, hi |-> 20, error |-> "InvalidFrequencyPenalty"],
     presence_penalty |->
         [lo |-> -20, hi |-> 20, error |-> "InvalidPresencePenalty"],
     top_logprobs |-> [lo |-> 0, hi |-> 20, error |-> "InvalidTopLogprobs"],
     n |-> [lo |-> 1, hi |-> 10, error |-> "InvalidN"],
     logit_bias |-> [lo |-> -1000, hi |-> 1000, error |-> "InvalidLogitBias"]]

\* the request sets field f to a value the contract refuses
Refused(req, f) ==
    /\ IsSome(req[f])
    /\ LET c == NumericContract[f]
       IN  IF f = "logit_bias"
           THEN \E i \in 1..Len(req[f][1]) :
                    LET entry == req[f][1][i]
                    IN  \/ ~entry.numeric_id
                        \/ IsNone(entry.bias)
                        \/ entry.bias[1] < c.lo
                        \/ entry.bias[1] > c.hi
           ELSE req[f][1] < c.lo \/ req[f][1] > c.hi

\* C21: on a request whose messages pass, a numeric field strictly outside
\* its range is rejected with the error of that field (of the first such
\* field in the validator's order when there are several), and a request
\* whose numeric fields are all within their ranges, ends included, passes.
NumericRangesEnforced ==
    (Called("validate_completion_request")
       /\ \E i \in 1..Len(call[1].request.messages) :
             IsSome(call[1].request.messages[i].content)) =>
        LET req == call[1].request
            refused == {i \in 1..Len(NumericFields) : Refused(req, NumericFields[i])}
        IN  IF refused = {} THEN call[1].result.ok
            ELSE /\ ~call[1].result.ok
                 /\ \E i \in refused :
                       /\ \A j \in refused : i <= j
                       /\ call[1].result.err.type =
                              NumericContract[NumericFields[i]].error

\* max_tokens at the upper end passes, n above its range is refused
UpperEndPassesNextValueRefused ==
    /\ Called("validate_completion_request")
    /\ call[1].request.max_tokens = Some(128000)
    /\ call[1].request.n = Some(11)
    /\ ~call[1].result.ok
    /\ call[1].result.err.type = "InvalidN"

----------------------------------------------------------------------------
(* Properties of the error taxonomy *)

\* C22: every provider error gets the HTTP status and error.type of the
\* taxonomy; RequestFailed{status} gets `status` when it is a status code
\* (100..999) and 500 otherwise, with the type 401, 403 and 429 select.
ProviderErrorsFollowTaxonomy ==
    Called("into_response") =>
        LET e == call[1].error
            status == call[1].result.status
            type == call[1].result.body.error.type
        IN  /\ e.type = "ConnectionFailed" => status = 502 /\ type = "api_error"
            /\ e.type = "InvalidResponse" => status = 500 /\ type = "api_error"
            /\ e.type = "Timeout" => status = 504 /\ type = "timeout_error"
            /\ e.type = "ModelNotAvailable" =>
                  status = 400 /\ type = "invalid_request_error"
            /\ e.type = "Configuration" => status = 500 /\ type = "api_error"
            /\ e.type = "InvalidExtension" =>
                  status = 400 /\ type = "invalid_request_error"
            /\ e.type = "RequestFailed" =>
                  /\ status = IF 100 <= e.status /\ e.status <= 999
                              THEN e.status ELSE 500
                  /\ type = IF e.status = 401 THEN "authentication_error"
                            ELSE IF e.status = 403 THEN "permission_error"
                            ELSE IF e.status = 429 THEN "rate_limit_error"
                            ELSE "api_error"

\* RequestFailed{status: 0}, what a transport error other than a timeout or
\* a refused connection becomes, answered with 500
StatusZeroAnsweredWith500 ==
    /\ Called("into_response")
    /\ call[1].error.type = "RequestFailed"
    /\ call[1].error.status = 0
    /\ call[1].result.status = 500
    /\ call[1].result.body.error.type = "api_error"

\* C23: a StreamError item of an active stream is sent in-band as an error
\* event whose error.type is the one to_openai_error gives a StreamError,
\* api_error.
InBandErrorHasTaxonomyType ==
    \A i \in 1..Len(sse) :
        (i <= Len(adapter_items)
           /\ ~adapter_items[i].ok
           /\ adapter_items[i].err.type = "StreamError") =>
            /\ IsErrorEvent(sse[i])
            /\ sse[i].data.json.error.type
                   = to_openai_error(adapter_items[i].err).type

\* the request in flight was answered from an upstream error envelope
AnsweredFromEnvelope ==
    /\ pc = "done"
    /\ adapter_calls = <<"generate">>
    /\ IsSome(upstream_reply)
    /\ IsNone(upstream_reply[1].transport)
    /\ "json" \in DOMAIN upstream_reply[1].body
    /\ "error" \in DOMAIN upstream_reply[1].body.json

\* C24: the openai adapter maps an upstream error envelope by its error.type
\* alone, whatever the upstream status: the quota types give RequestFailed
\* 429 (HTTP 429, rate_limit_error), model_not_found gives ModelNotAvailable
\* with no available model, the key and organization types give
\* Configuration, any other or no type gives RequestFailed 500.
OpenAIEnvelopeMappedByType ==
    (provider = "openai" /\ AnsweredFromEnvelope) =>
        LET envelope == upstream_reply[1].body.json.error
            type == IF "type" \in DOMAIN envelope THEN envelope.type ELSE "unknown"
            e == response[1].err.error
        IN  /\ ~response[1].ok
            /\ response[1].err.kind = "Provider"
            /\ type \in {"insufficient_quota", "rate_limit_exceeded"} =>
                  /\ e.type = "RequestFailed"
                  /\ e.status = 429
                  /\ into_response(e).status = 429
                  /\ into_response(e).body.error.type = "rate_limit_error"
            /\ type = "model_not_found" =>
                  /\ e.type = "ModelNotAvailable"
                  /\ e.available = <<>>
            /\ type \in {"invalid_api_key", "invalid_organization"} =>
                  e.type = "Configuration"
            /\ type \notin {"insufficient_quota", "rate_limit_exceeded",
                            "model_not_found", "invalid_api_key",
                            "invalid_organization"} =>
                  /\ e.type = "RequestFailed"
                  /\ e.status = 500

\* an upstream 200 whose body is a quota envelope reaches the caller as 429
QuotaEnvelopeUnder200 ==
    /\ provider = "openai"
    /\ AnsweredFromEnvelope
    /\ upstream_reply[1].status = 200
    /\ "type" \in DOMAIN upstream_reply[1].body.json.error
    /\ upstream_reply[1].body.json.error.type = "insufficient_quota"
    /\ ~response[1].ok
    /\ into_response(response[1].err.error).status = 429
    /\ into_response(response[1].err.error).body.error.type = "rate_limit_error"

----------------------------------------------------------------------------
(* Properties of the openai-compat adapter's response parsing *)

\* C25: parse_response_body on a body that is a completion: a model other
\* than the requested one gives ModelNotAvailable with the requested model
\* and the upstream's model as the only available one; the requested model
\* and a choice give a neutral response with the body's text, model,
\* finish_reason, id and token counts.
UpstreamModelCheckedThenCarried ==
    (Called("parse_response_body")
       /\ {"id", "object", "model", "choices"} \subseteq DOMAIN call[1].response) =>
        LET json == call[1].response
            requested == call[1].requested_model
            result == call[1].result
        IN  /\ json.model # requested =>
                  /\ ~result.ok
                  /\ result.err.type = "ModelNotAvailable"
                  /\ result.err.requested = requested
                  /\ result.err.available = <<json.model>>
            /\ (json.model = requested /\ json.choices # <<>>) =>
                  LET choice == json.choices[1]
                  IN  /\ result.ok
                      /\ result.val.text =
                             IF "content" \in DOMAIN choice.message
                             THEN choice.message.content ELSE <<>>
                      /\ result.val.model_used = json.model
                      /\ result.val.finish_reason = Field(choice, "finish_reason")
                      /\ result.val.provider_request_id = Some(json.id)
                      /\ \A k \in {"prompt_tokens", "completion_tokens",
                                   "total_tokens"} :
                            result.val[k] = IF "usage" \in DOMAIN json
                                            THEN Some(json.usage[k]) ELSE None

\* the upstream answered with another model than the requested one
OtherModelRefused ==
    /\ Called("parse_response_body")
    /\ "object" \in DOMAIN call[1].response
    /\ call[1].response.model = <<"other">>
    /\ call[1].response.choices # <<>>
    /\ ~call[1].result.ok
    /\ call[1].result.err.type = "ModelNotAvailable"
    /\ call[1].result.err.available = <<<<"other">>>>

\* C26: when the openai-compat unary generate cannot deserialise the
\* upstream body directly, the single-choice fallback succeeds and carries
\* the body's backend-only fields to a response_mode=extended request as
\* provider_extensions.
FallbackCapturesBackendFields ==
    (/\ provider = "lmstudio"
     /\ pc = "done"
     /\ adapter_calls = <<"generate">>
     /\ IsSome(upstream_reply)
     /\ IsNone(upstream_reply[1].transport)
     /\ is_success(upstream_reply[1].status)
     /\ "json" \in DOMAIN upstream_reply[1].body
     /\ ~DeserializeCompletionResponse(upstream_reply[1].body.json).ok
     /\ "timings" \in DOMAIN upstream_reply[1].body.json
     /\ request[1].response_mode = Some("extended")) =>
        /\ Completed
        /\ IsSome(response[1].val.body.provider_extensions)
        /\ response[1].val.body.provider_extensions[1].data.timings
               = upstream_reply[1].body.json.timings

----------------------------------------------------------------------------
(* Properties of the HTTP adapters' streams *)

\* C27: in a stream of an HTTP adapter the upstream's [DONE] event ends the
\* adapter's sequence: after it no upstream event becomes a chunk or an
\* error item.
NoItemAfterUpstreamDone ==
    [][(/\ pc = "streaming"
        /\ IsSome(provider_stream)
        /\ provider_stream[1].kind = "upstream"
        /\ provider_stream[1].done_received
        /\ pc' = "streaming")
          => adapter_items' = adapter_items]_vars

----------------------------------------------------------------------------
(* Properties of the capability check *)

\* C28: validate_provider_capabilities fails with StreamingNotSupported
\* exactly when the request has stream = true and the adapter's
\* supports_streaming() is false; so the handler calls `stream` only on an
\* adapter that reports it can stream.
StreamingRefusedIffAdapterCannotStream ==
    /\ Called("validate_provider_capabilities") =>
         IF call[1].request.stream = Some(TRUE) /\ ~call[1].supports_streaming
         THEN call[1].result = Err(ValidationError("StreamingNotSupported"))
         ELSE call[1].result.ok
    /\ Called("pipeline") =>
         /\ call[1].adapter_calls = <<"stream">> =>
              supports_streaming(call[1].provider)
         /\ (call[1].request.stream = Some(TRUE)
               /\ ~supports_streaming(call[1].provider)) =>
              call[1].result =
                  Err(ApiError("Validation",
                               ValidationError("StreamingNotSupported")))

StreamRefusedOnTraitDefaultAdapter ==
    /\ Called("pipeline")
    /\ call[1].request.stream = Some(TRUE)
    /\ ~supports_streaming(call[1].provider)
    /\ ~call[1].result.ok
    /\ call[1].adapter_calls = <<>>

----------------------------------------------------------------------------
(* Properties of the mock's fixture resolution *)

\* the mock adapter was called for the request in flight
MockAnswered ==
    provider = "mock" /\ adapter_calls # <<>> /\ IsSome(response)

\* the file of responses_dir that the request in flight is to be served from:
\* <scenario>.yaml when it exists, else default.yaml when that exists
FixtureOnDisk ==
    IF Tail(ServedModel) \in DOMAIN files THEN Some(files[Tail(ServedModel)])
    ELSE IF <<"default">> \in DOMAIN files THEN Some(files[<<"default">>])
    ELSE None

\* the answer to the request in flight is made of a response of the file `raw`
AnsweredFromFile(raw) ==
    \E r \in 1..Len(raw.responses) :
        LET mock_response == parse_mock_file(raw).val.responses[r]
        IN  /\ IsSome(response) /\ response[1].ok
            /\ Completed =>
                  response[1].val.body.choices[1].message[1].content =
                      Some(mock_response.text)
            /\ (Streamed /\ pc = "done") =>
                  \E uuid \in UUIDs :
                      adapter_items =
                          mock_stream_items(
                              mock_request_id(Tail(ServedModel), uuid),
                              mock_response)

\* C29: a mock request for `mock-<scenario>` is served from <scenario>.yaml if
\* that file exists, from default.yaml if only that exists; with neither file,
\* without the `mock-` prefix, or with a file whose responses list is empty,
\* it fails with a Configuration error and no response is made up.
ScenarioFileThenDefaultElseConfigurationError ==
    MockAnswered =>
        IF \/ ServedModel = <<>>
           \/ ServedModel[1] # "mock-"
           \/ IsNone(FixtureOnDisk)
           \/ FixtureOnDisk[1].responses = <<>>
           \/ ~FixtureOnDisk[1].yaml_ok
        THEN Rejected("Configuration")
        ELSE AnsweredFromFile(FixtureOnDisk[1])

\* a request for a scenario without a file, answered from default.yaml
MissingScenarioAnsweredFromDefault ==
    /\ MockAnswered
    /\ Completed
    /\ Tail(ServedModel) \notin DOMAIN files
    /\ <<"default">> \in DOMAIN files
    /\ response[1].val.body.choices[1].message[1].content =
           Some(files[<<"default">>].responses[1].text)

----------------------------------------------------------------------------
(* Properties of the startup *)

\* C30: with the Triton variant configured, create_provider returns an error
\* at startup: no adapter is created, the listener is never bound and no
\* request is ever served.
TritonNeverStarts ==
    (IsSome(boot) /\ provider = "triton") =>
        /\ boot[1].at \in {"create_provider", "panicked"}
        /\ IsNone(boot[1].adapter)
        /\ ~boot[1].listening
        /\ pc = "down"
        /\ IsNone(request)
        /\ IsNone(response)
        /\ adapter_calls = <<>>

\* main has ended in the panic of `expect` on the Triton variant
TritonStartupPanicked ==
    /\ IsSome(boot)
    /\ provider = "triton"
    /\ boot[1].at = "panicked"
    /\ IsNone(boot[1].adapter)

----------------------------------------------------------------------------
(* Properties of the process-wide state *)

\* C31: a request of any kind (completion, stream, models, health) leaves the
\* configuration and the adapter instance as they are; of the process-wide
\* state only the mock's fixture cache may change, and when the handler is
\* ready for the next request nothing of the last one is left.
RequestsChangeOnlyTheFixtureCache ==
    [][(IsSome(boot) /\ boot[1].at = "serve") =>
          /\ provider' = provider
          /\ default_model' = default_model
          /\ allowed_models' = allowed_models
          /\ files' = files
          /\ boot' = boot
          /\ response_cache' # response_cache => provider = "mock"
          /\ pc' = "idle" =>
                /\ request' = None
                /\ stages' = <<>>
                /\ adapter_calls' = <<>>
                /\ upstream_posts' = 0
                /\ fixture_reads' = 0
                /\ upstream_reply' = None
                /\ response' = None
                /\ provider_stream' = None
                /\ adapter_items' = <<>>
                /\ sse' = <<>>]_vars

\* the server is ready for the next request after one that filled the cache
ServedOnceCacheFilled ==
    /\ IsSome(boot)
    /\ boot[1].at = "serve"
    /\ pc = "idle"
    /\ response_cache # <<>>
    /\ request = None
    /\ sse = <<>>

----------------------------------------------------------------------------
(* Properties of the mock stream's chunks *)

\* C32: the chunks of one mock stream, role, content and final, all carry the
\* id made once for the stream, mock-<scenario>-<uuid>, and the model_used of
\* the response the stream was made from.
MockChunksShareIdAndModel ==
    (Streamed /\ provider = "mock") =>
        \E uuid \in UUIDs, r \in 1..Len(ServingFixture.responses) :
            \A i \in 1..Len(adapter_items) :
                /\ adapter_items[i].ok
                /\ adapter_items[i].val.id =
                       mock_request_id(Tail(ServedModel), uuid)
                /\ adapter_items[i].val.model =
                       ServingFixture.responses[r].model_used

\* a finished mock stream of three chunks from a response that names its model
MockStreamOfNamedModelFinished ==
    /\ Streamed
    /\ provider = "mock"
    /\ pc = "done"
    /\ Len(adapter_items) = 3
    /\ IsRoleChunk(adapter_items[1].val)
    /\ HasFinishReason(adapter_items[3].val)
    /\ adapter_items[3].val.model = <<"mock-", "demo">>
    /\ adapter_items[1].val.id = adapter_items[3].val.id

----------------------------------------------------------------------------
(* Properties of the retry loop's delay *)

\* C33: the wait before retry attempt k of post_json is exactly
\* retry_backoff_ms * 2^(k-1) milliseconds, and computing it does not
\* overflow, whatever max_retries and retry_backoff_ms are configured.
RetryDelayDoublesWithoutOverflow ==
    Called("retry_delay") =>
        /\ call[1].result.ok
        /\ call[1].result.val = Millis(call[1].backoff_ms, call[1].attempt - 1)

----------------------------------------------------------------------------
(* Properties of the extension validators *)

\* C34: the default validate_extensions accepts a map exactly when each of
\* its keys is in supported_extensions; with no supported extension (openai,
\* mock) it accepts the empty map only and answers every other map with
\* InvalidExtension.
DefaultPolicyAcceptsSupportedKeysOnly ==
    Called("default_validate_extensions") =>
        /\ call[1].result.ok <=>
               DOMAIN call[1].extensions \subseteq call[1].supported
        /\ ~call[1].result.ok => call[1].result.err.type = "InvalidExtension"
        /\ call[1].supported = {} =>
               (call[1].result.ok <=> DOMAIN call[1].extensions = {})

\* an adapter without extensions refuses a map of two keys
TwoKeysRefusedWithoutSupportedExtensions ==
    /\ Called("default_validate_extensions")
    /\ call[1].supported = {}
    /\ Cardinality(DOMAIN call[1].extensions) = 2
    /\ ~call[1].result.ok
    /\ call[1].result.err.type = "InvalidExtension"

\* the number a JSON number stands for, in tenths
Tenths(value) ==
    IF value.t = "int" THEN 10 * value.v ELSE value.v

IsNumber(value) ==
    value.t \in {"int", "float"}

\* the constraint on the value of each LM Studio extension
ExtensionContract(key, value) ==
    CASE key = "top_k" -> value.t = "int" /\ value.v > 0
      [] key = "mirostat_mode" -> value.t = "int" /\ value.v \in {0, 1, 2}
      [] key \in {"min_tokens", "n_probs"} -> value.t = "int" /\ value.v >= 0
      [] key \in {"min_p", "mirostat_eta", "typical_p"} ->
            IsNumber(value) /\ 0 <= Tenths(value) /\ Tenths(value) <= 10
      [] key \in {"repeat_penalty", "tfs_z"} ->
            IsNumber(value) /\ Tenths(value) >= 0
      [] key = "mirostat_tau" -> IsNumber(value) /\ Tenths(value) > 0
      [] key = "grammar" -> value.t = "string"
      [] key = "cache_prompt" -> value.t = "bool"
      [] OTHER -> FALSE

\* C35: the openai-compat adapter's validate_extensions accepts a map exactly
\* when each key is one of the twelve LM Studio extensions and its value meets
\* that key's constraint; otherwise it answers InvalidExtension with an
\* offending key as param.
LMStudioExtensionsValidatedPerKey ==
    Called("validate_lm_studio_extensions") =>
        LET extensions == call[1].extensions
            offending == {k \in DOMAIN extensions :
                             \/ k \notin LM_STUDIO_EXTENSIONS
                             \/ ~ExtensionContract(k, extensions[k])}
        IN  /\ Cardinality(LM_STUDIO_EXTENSIONS) = 12
            /\ call[1].result.ok <=> offending = {}
            /\ ~call[1].result.ok =>
                  /\ call[1].result.err.type = "InvalidExtension"
                  /\ call[1].result.err.param \in offending

\* of two keys, top_k = 0 offends and min_tokens = 1 does not
OffendingKeyOfTwoNamed ==
    /\ Called("validate_lm_studio_extensions")
    /\ DOMAIN call[1].extensions = {"top_k", "min_tokens"}
    /\ call[1].extensions["top_k"].v = 0
    /\ ~call[1].result.ok
    /\ call[1].result.err.param = "top_k"

----------------------------------------------------------------------------
(* Properties of the allow-list on the default model *)

\* the request in flight names no model, is well-formed, and the allow-list
\* configured does not hold the default model
DefaultModelNotAllowed ==
    /\ IsSome(request)
    /\ IsNone(request[1].model)
    /\ validate_completion_request(request[1]).ok
    /\ IsSome(allowed_models)
    /\ default_model \notin allowed_models[1]

\* C36: a request without a model, under an allow-list that does not hold
\* the default model, is rejected with ModelNotInAllowedList for the default
\* model, and no adapter operation is invoked.
DefaultModelSubjectToAllowList ==
    DefaultModelNotAllowed =>
        /\ Rejected("ModelNotInAllowedList")
        /\ response[1].err.kind = "Validation"
        /\ response[1].err.error.model = default_model
        /\ adapter_calls = <<>>
        /\ upstream_posts = 0
        /\ fixture_reads = 0
        /\ response_cache = <<>>

\* the default model mock-demo refused under the allow-list {gpt-4}
DefaultModelRefused ==
    /\ DefaultModelNotAllowed
    /\ pc = "done"
    /\ Rejected("ModelNotInAllowedList")
    /\ default_model = <<"mock-", "demo">>
    /\ stages = <<"validate_request", "determine_model", "validate_model_allowed">>

----------------------------------------------------------------------------
(* Properties of a stream that fails before it starts *)

\* adapter.stream was called for the request in flight and returned an error
StreamCallFailed ==
    /\ IsSome(request)
    /\ adapter_calls = <<"stream">>
    /\ IsSome(response)
    /\ ~response[1].ok

\* C37: when adapter.stream itself fails, the handler answers with an
\* ordinary HTTP error response, the error's mapped status and error body,
\* and writes no SSE event at all, so no [DONE] either.
FailedStreamCallAnsweredWithoutSse ==
    StreamCallFailed =>
        /\ sse = <<>>
        /\ adapter_items = <<>>
        /\ IsNone(provider_stream)
        /\ pc = "done"
        /\ response[1].err.kind = "Provider"
        /\ LET http == into_response(response[1].err.error)
           IN  /\ http.status \in 400..599
               /\ http.status = IF response[1].err.error.type = "RequestFailed"
                                   /\ response[1].err.error.status \in 400..599
                                THEN response[1].err.error.status
                                ELSE status_code(response[1].err.error)
               /\ http.body.error.type # "stream_error"

\* the upstream answered the streaming POST with 404
StreamingPostAnswered404 ==
    /\ StreamCallFailed
    /\ provider \in {"lmstudio", "openai"}
    /\ upstream_posts = 1
    /\ response[1].err.error = RequestFailed(404)
    /\ into_response(response[1].err.error).status = 404
    /\ sse = <<>>

----------------------------------------------------------------------------
(* Properties of the mock cache's mutex *)

\* C38: the cache mutex is held only inside the lookup block and the insert
\* block, never while a task is suspended (probing or reading the file), so
\* no task waits for the lock forever: every call of load_responses comes
\* back, with a fixture or an error.
MutexNeverHeldAcrossAwait ==
    /\ [](\A t \in Tasks :
             mc[1].lock = Some(t) <=> mc[1].tasks[t].pc \in {"lookup", "insert"})
    /\ \A t \in Tasks :
          (mc[1].tasks[t].pc # "idle")
              ~> (mc[1].tasks[t].pc = "idle" /\ IsSome(mc[1].tasks[t].result))

\* one task holds the mutex for its insert while the other waits for it
TaskWaitsForTheInsertOfAnother ==
    /\ IsSome(mc)
    /\ \E t, u \in Tasks :
          /\ mc[1].lock = Some(t)
          /\ mc[1].tasks[t].pc = "insert"
          /\ mc[1].tasks[u].pc = "lock_lookup"

\* the fixture files parsed so far
ParsedFiles ==
    {path \in CachePaths : mc[1].parses[path] > 0}

\* task t is in a load that fell back to default.yaml
FallsBack(t) ==
    /\ mc[1].tasks[t].path = <<"default">>
    /\ mc[1].tasks[t].scenario # <<"default">>

\* C39: a load that falls back to default.yaml caches the fixture under the
\* key "default" and not under the scenario asked for; a scenario none of
\* whose files was parsed is never a key, so each request of it misses the
\* cache and reads default.yaml again; the keys are names of parsed files.
FallbackCachedUnderDefault ==
    /\ [](DOMAIN response_cache \subseteq ParsedFiles)
    /\ [][\A t \in Tasks :
            /\ (mc[1].tasks[t].pc = "insert" /\ FallsBack(t)
                    /\ mc'[1].tasks[t].pc = "idle")
                  => /\ DOMAIN response_cache'
                          = DOMAIN response_cache \cup {<<"default">>}
                     /\ response_cache'[<<"default">>] = mc[1].tasks[t].file
            /\ (mc[1].tasks[t].pc = "lookup"
                    /\ mc[1].tasks[t].scenario \notin ParsedFiles
                    /\ mc'[1].tasks[t].pc # "lookup")
                  => mc'[1].tasks[t].pc = "probe"
            /\ (mc[1].tasks[t].pc = "probe"
                    /\ mc[1].tasks[t].scenario \notin DOMAIN files
                    /\ <<"default">> \in DOMAIN files
                    /\ mc'[1].tasks[t].pc # "probe")
                  => /\ mc'[1].tasks[t].pc = "read"
                     /\ mc'[1].tasks[t].path = <<"default">>
            /\ (mc[1].tasks[t].pc = "read" /\ FallsBack(t)
                    /\ <<"default">> \in DOMAIN files
                    /\ mc'[1].tasks[t].pc # "read")
                  => mc'[1].parses[<<"default">>]
                         = mc[1].parses[<<"default">>] + 1]_vars

\* default.yaml is cached after a fallback for "nofile", and a further
\* request of "nofile" has missed the cache and read default.yaml again
MissingScenarioReadsDefaultAgain ==
    /\ IsSome(mc)
    /\ <<"default">> \in DOMAIN response_cache
    /\ <<"nofile">> \notin DOMAIN response_cache
    /\ \E t, u \in Tasks :
          /\ mc[1].tasks[u].pc = "idle"
          /\ mc[1].tasks[u].scenario = <<"nofile">>
          /\ IsSome(mc[1].tasks[u].result)
          /\ mc[1].tasks[u].result[1].ok
          /\ mc[1].tasks[t].scenario = <<"nofile">>
          /\ mc[1].tasks[t].pc = "lock_insert"
          /\ FallsBack(t)
          /\ mc[1].parses[<<"default">>] >= 2

----------------------------------------------------------------------------
(* Properties of the retry loop's end *)

\* the attempt ended in a timeout, a connection failure or a 5xx status
RetryableFailure(reply) ==
    IF IsSome(reply.transport)
    THEN reply.transport[1] \in {"timeout", "connect"}
    ELSE 500 <= reply.status /\ reply.status <= 599

\* the error post_json makes of a failed attempt
ErrorOfAttempt(reply) ==
    IF IsSome(reply.transport) THEN map_reqwest_error(reply.transport[1])
    ELSE RequestFailed(reply.status)

\* C40: post_json returns after at most max_retries + 1 requests to the
\* upstream (after exactly one when max_retries = 0); when every attempt
\* failed retryably it returns the error of the last one; it never returns
\* the error "All retry attempts exhausted".
PostJsonEndsWithLastError ==
    /\ [](LET loop == pj[1]
              n == Len(loop.replies)
          IN  /\ n <= loop.max_retries + 1
              /\ n = loop.max_retries + 1 => IsSome(loop.result)
              /\ IsSome(loop.result) => n >= 1
              /\ (loop.max_retries = 0 /\ IsSome(loop.result)) => n = 1
              /\ (IsSome(loop.result)
                    /\ \A i \in 1..n : RetryableFailure(loop.replies[i])) =>
                    /\ n = loop.max_retries + 1
                    /\ loop.result[1] = Err(ErrorOfAttempt(loop.replies[n]))
              /\ IsSome(loop.result) =>
                    loop.result[1] # Err(AllRetryAttemptsExhausted))
    /\ <>IsSome(pj[1].result)

\* three retries used up, the first attempt a 503 and the last a timeout: the
\* call returned the timeout
GaveUpWithTheLastTimeout ==
    /\ IsSome(pj)
    /\ pj[1].max_retries = 3
    /\ Len(pj[1].replies) = 4
    /\ \A i \in 1..4 : RetryableFailure(pj[1].replies[i])
    /\ Is503(pj[1].replies[1])
    /\ pj[1].replies[4].transport = Some("timeout")
    /\ pj[1].result = Some(Err(ProviderError("Timeout")))

====
